---- MODULE Spec2Model ----
(***************************************************************************)
(* EVVMCafhe (evvm-cafhe/src/lib.rs), the signature library it calls      *)
(* (fhe-stylus/src/signature.rs) and the CoFHE wrappers                    *)
(* (fhe-stylus/src/cofhe.rs), as state machines.                           *)
(*                                                                         *)
(* Contract storage: evvm_core, owner_of_shop, check_async_nonce.          *)
(* Environment: the ledger (IEVVMCore: evvmID, pay), the ecrecover         *)
(* precompile, and the clients' off-chain signing keys.                    *)
(* History: last (the most recent call: its inputs that matter, the        *)
(* storage before it, the steps it ran, the pay calls it made, its         *)
(* result) and paid (successful pay calls made by order_coffee, per        *)
(* (client, order nonce)), and invoked (the inputs a call was made with    *)
(* and what it returned, kept by the specifications that exercise one      *)
(* function at a time).                                                    *)
(*                                                                         *)
(* Storage writes are modelled exactly where the code performs them; no    *)
(* transaction rollback is applied on top, so "no state change on error"   *)
(* is decided by the order of the code's statements.                       *)
(***************************************************************************)
EXTENDS Integers, Sequences, FiniteSets, TLC

VARIABLES evvm_core, owner_of_shop, check_async_nonce, last, paid, invoked,
          coprocessor

vars ==
    <<evvm_core, owner_of_shop, check_async_nonce, last, paid, invoked,
      coprocessor>>

(***************************************************************************)
(* Bounds and input sets                                                   *)
(***************************************************************************)

\* order_coffee is not offered for a (client, nonce) that already has this
\* many successful pay calls; the code never gets past 1.
MaxSettle == 2

\* Address::ZERO, also the value of an address slot never written.
ADDRESS_ZERO == 0

\* const ETHER_ADDRESS: Address = Address::ZERO
ETHER_ADDRESS == ADDRESS_ZERO

\* The principal token.
PRINCIPAL_TOKEN_ADDRESS == 1

\* contract::address() of the deployed shop.
ShopAddress == 7

\* Externally owned accounts that sign orders.
Clients == {10, 11}

\* Accounts that may be configured as owner.
Owners == {5, 6}

\* msg::sender of initialize and of the withdrawals.
Senders == Owners

\* msg::sender of order_coffee: whoever relays the client's signed order.
Fishers == {6}

\* Deployed ledgers (IEVVMCore) and the EVVM id each reports.
Ledgers == {20, 21}

EvvmIdOf(addr) == IF addr = 20 THEN 1 ELSE 2

\* What ecrecover yields for a signature nobody produced.
StrangerAddress == 200

\* Order fields offered to order_coffee and signed off-chain.
EvvmIds == {EvvmIdOf(l) : l \in Ledgers}

CoffeeTypeList == << <<"L">> >>

CoffeeTypes == {CoffeeTypeList[i] : i \in DOMAIN CoffeeTypeList}

Quantities == {2}

Prices == {5}

\* Total prices of the orders the clients have signed off-chain.
SignedPrices == Prices \cup {16}

Nonces == {7, 8}

\* Fields of the ledger payment that this contract only forwards.
PriorityFees == {0}

EvvmNonces == {3}

PriorityFlags == {FALSE}

\* InEuint64 {ct_hash, security_zone, utype, signature}
EncryptedInputs == {[ct_hash |-> 77, security_zone |-> 0, utype |-> 5,
                     signature |-> <<1, 2>>]}

(***************************************************************************)
(* Bytes and strings.  A string is a sequence of one-character strings, a  *)
(* byte string a sequence of 0..255.                                       *)
(***************************************************************************)

\* n copies of byte b.
Rep(b, n) == SubSeq([i \in 1..n |-> b], 1, n)

Digit(d) == <<"0", "1", "2", "3", "4", "5", "6", "7", "8", "9">>[d + 1]

RECURSIVE to_string(_)
\* U256 / usize Display: decimal, no leading zeros.
to_string(n) ==
    IF n < 10 THEN <<Digit(n)>> ELSE to_string(n \div 10) \o <<Digit(n % 10)>>

RECURSIVE BigEndian(_)
BigEndian(bs) ==
    IF bs = <<>> THEN 0
    ELSE BigEndian(SubSeq(bs, 1, Len(bs) - 1)) * 256 + bs[Len(bs)]

\* Address::from([u8; 20])
AddressFrom(bs) == BigEndian(bs)

\* keccak256, collision free: the digest stands for the bytes hashed.
keccak256(bytes) == <<"keccak256", bytes>>

(***************************************************************************)
(* Off-chain environment: what a client's wallet signs, and the ecrecover  *)
(* precompile.  A signature (r, s, v) exists for every (key, order) pair;  *)
(* r is 32 copies of a byte that identifies the signed message, s is 32    *)
(* copies of a byte that identifies the key, v is 27 or 28.  The           *)
(* precompile recovers the key from a signature over the digest it was     *)
(* made for, an unrelated address from any other well-formed input, and    *)
(* returns no output for r = 0 or s = 0.                                   *)
(***************************************************************************)

orderCoffee == <<"o", "r", "d", "e", "r", "C", "o", "f", "f", "e", "e">>

\* b"\x19Ethereum Signed Message:\n"
EIP191_PREFIX ==
    <<"\\x19", "E", "t", "h", "e", "r", "e", "u", "m", " ", "S", "i", "g", "n",
      "e", "d", " ", "M", "e", "s", "s", "a", "g", "e", ":", "\\n">>

SignedOrders ==
    [evvm_id : EvvmIds, coffee_type : CoffeeTypes, quantity : Quantities,
     total_price : SignedPrices, nonce : Nonces]

\* "<evvmID>,orderCoffee,<coffeeType>,<quantity>,<totalPrice>,<nonce>"
SignedMessage(o) ==
    to_string(o.evvm_id) \o <<",">> \o orderCoffee \o <<",">> \o o.coffee_type
      \o <<",">> \o to_string(o.quantity) \o <<",">> \o to_string(o.total_price)
      \o <<",">> \o to_string(o.nonce)

\* personal_sign digest of a message.
PersonalSignDigest(m) == keccak256(EIP191_PREFIX \o to_string(Len(m)) \o m)

\* The rank of x in a set of numbers.
Pos(S, x) == Cardinality({y \in S : y < x})

\* One byte per signed message, distinct for distinct orders.
MessageByte(o) ==
    1 + Pos(EvvmIds, o.evvm_id) + Cardinality(EvvmIds) *
         (Pos(Nonces, o.nonce) + Cardinality(Nonces) *
           (Pos(SignedPrices, o.total_price) + Cardinality(SignedPrices) *
             (Pos(Quantities, o.quantity) + Cardinality(Quantities) *
               ((CHOOSE i \in DOMAIN CoffeeTypeList :
                    CoffeeTypeList[i] = o.coffee_type) - 1))))

\* Every signature a client key has produced.
Signatures ==
    {[key |-> k, order |-> o, digest |-> PersonalSignDigest(SignedMessage(o)),
      r |-> Rep(MessageByte(o), 32), s |-> Rep(k, 32),
      v |-> 27 + ((MessageByte(o) + k) % 2)] : k \in Clients, o \in SignedOrders}

\* [0u8; 32] and its first 31 bytes.
ZeroWord == Rep(0, 32)

ZeroPad == Rep(0, 31)

\* 32-byte word holding an address in its last 20 bytes.
AddressWord(a) == ZeroPad \o <<a>>

\* The precompile at address 0x01 on input [hash][v as 32 bytes][r][s].
Precompile(input) ==
    LET v == input.v[32]
        made == {g \in Signatures :
                    /\ g.v = v /\ g.r = input.r /\ g.s = input.s
                    /\ g.digest = input.hash}
    IN  IF input.r = ZeroWord \/ input.s = ZeroWord \/ v \notin {27, 28}
        THEN <<>>
        ELSE IF made # {}
             THEN AddressWord((CHOOSE g \in made : TRUE).key)
             ELSE AddressWord(StrangerAddress)

(***************************************************************************)
(* fhe-stylus/src/signature.rs                                             *)
(***************************************************************************)

Ok(x) == [ok |-> TRUE, val |-> x, err |-> "none"]

Err(e) == [ok |-> FALSE, val |-> 0, err |-> e]

\* Only inputs shorter than 65 bytes refused.
split_signature_ShortOnly(signature) ==
    IF Len(signature) < 65 THEN Err("InvalidLength")
    ELSE LET r == SubSeq(signature, 1, 32)
             s == SubSeq(signature, 33, 64)
             v0 == signature[65]
             v == IF v0 < 27 THEN (v0 + 27) % 256 ELSE v0
         IN  IF v # 27 /\ v # 28 THEN Err("InvalidV")
             ELSE Ok([r |-> r, s |-> s, v |-> v])

\* `v <= 27` for `v < 27`: 27 is raised to 54.
split_signature_NormalizeUpTo27(signature) ==
    IF Len(signature) # 65 THEN Err("InvalidLength")
    ELSE LET r == SubSeq(signature, 1, 32)
             s == SubSeq(signature, 33, 64)
             v0 == signature[65]
             v == IF v0 <= 27 THEN (v0 + 27) % 256 ELSE v0
         IN  IF v # 27 /\ v # 28 THEN Err("InvalidV")
             ELSE Ok([r |-> r, s |-> s, v |-> v])

\* 27 added to every v, in 8 bits.
split_signature_AlwaysAdd(signature) ==
    IF Len(signature) # 65 THEN Err("InvalidLength")
    ELSE LET r == SubSeq(signature, 1, 32)
             s == SubSeq(signature, 33, 64)
             v == (signature[65] + 27) % 256
         IN  IF v # 27 /\ v # 28 THEN Err("InvalidV")
             ELSE Ok([r |-> r, s |-> s, v |-> v])

\* The normalization of v left out.
split_signature_NoNormalize(signature) ==
    IF Len(signature) # 65 THEN Err("InvalidLength")
    ELSE LET r == SubSeq(signature, 1, 32)
             s == SubSeq(signature, 33, 64)
             v == signature[65]
         IN  IF v # 27 /\ v # 28 THEN Err("InvalidV")
             ELSE Ok([r |-> r, s |-> s, v |-> v])

split_signature(signature) ==
    IF Len(signature) # 65 THEN Err("InvalidLength")
    ELSE LET r == SubSeq(signature, 1, 32)
             s == SubSeq(signature, 33, 64)
             v0 == signature[65]
             v == IF v0 < 27 THEN (v0 + 27) % 256 ELSE v0
         IN  IF v # 27 /\ v # 28 THEN Err("InvalidV")
             ELSE Ok([r |-> r, s |-> s, v |-> v])

\* RawCall::new_static().call(0x01, input); the call itself may fail.
RawStaticCall(input, call_fails) ==
    IF call_fails THEN Err("call") ELSE Ok(Precompile(input))

\* A failed recovery reported as the zero address.
ecrecover_ZeroOnFailure(message_hash, v, r, s, call_fails) ==
    LET input == [hash |-> message_hash, v |-> ZeroPad \o <<v>>,
                  r |-> r, s |-> s]
        result == RawStaticCall(input, call_fails)
    IN  IF result.ok /\ Len(result.val) >= 32
        THEN Ok(AddressFrom(SubSeq(result.val, 13, 32)))
        ELSE Ok(ADDRESS_ZERO)

ecrecover(message_hash, v, r, s, call_fails) ==
    LET input == [hash |-> message_hash, v |-> ZeroPad \o <<v>>,
                  r |-> r, s |-> s]
        result == RawStaticCall(input, call_fails)
    IN  IF result.ok
        THEN IF Len(result.val) >= 32
             THEN Ok(AddressFrom(SubSeq(result.val, 13, 32)))
             ELSE Err("RecoveryFailed")
        ELSE Err("RecoveryFailed")

recover_signer(message, signature, call_fails) ==
    LET message_len == to_string(Len(message))
        eth_message == EIP191_PREFIX \o message_len \o message
        message_hash == keccak256(eth_message)
        split == split_signature(signature)
    IN  IF ~split.ok THEN Err(split.err)
        ELSE ecrecover(message_hash, split.val.v, split.val.r, split.val.s,
                       call_fails)

\* The inputs of the calls recover_signer makes to the precompile: none
\* when split_signature returns early, one from ecrecover otherwise.
recover_signer_calls(message, signature) ==
    LET message_len == to_string(Len(message))
        eth_message == EIP191_PREFIX \o message_len \o message
        message_hash == keccak256(eth_message)
        split == split_signature(signature)
    IN  IF ~split.ok THEN <<>>
        ELSE << [hash |-> message_hash, v |-> ZeroPad \o <<split.val.v>>,
                 r |-> split.val.r, s |-> split.val.s] >>

\* The same for signature_verification, which calls recover_signer once.
signature_verification_calls(evvm_id, function_name, inputs, signature) ==
    recover_signer_calls(evvm_id \o <<",">> \o function_name \o <<",">>
                           \o inputs, signature)

\* The comparison with expected_signer left out.
signature_verification_AnySigner(evvm_id, function_name, inputs, signature, expected_signer, call_fails) ==
    LET message == evvm_id \o <<",">> \o function_name \o <<",">> \o inputs
        recovered_signer == recover_signer(message, signature, call_fails)
    IN  IF ~recovered_signer.ok THEN Err(recovered_signer.err)
        ELSE Ok(TRUE)

\* The function name written before the EVVM id.
signature_verification_NameFirst(evvm_id, function_name, inputs, signature, expected_signer, call_fails) ==
    LET message == function_name \o <<",">> \o evvm_id \o <<",">> \o inputs
        recovered_signer == recover_signer(message, signature, call_fails)
    IN  IF ~recovered_signer.ok THEN Err(recovered_signer.err)
        ELSE Ok(recovered_signer.val = expected_signer)

signature_verification(evvm_id, function_name, inputs, signature, expected_signer, call_fails) ==
    LET message == evvm_id \o <<",">> \o function_name \o <<",">> \o inputs
        recovered_signer == recover_signer(message, signature, call_fails)
    IN  IF ~recovered_signer.ok THEN Err(recovered_signer.err)
        ELSE Ok(recovered_signer.val = expected_signer)

(***************************************************************************)
(* Environment of one call: which external call fails, and whether the     *)
(* ledger calls back into order_coffee while it executes pay.  A failing   *)
(* call ends the handler, so at most one fault per call is offered.        *)
(***************************************************************************)

NoFault ==
    [id_fails |-> FALSE, ecrecover_fails |-> FALSE, pay_fails |-> FALSE,
     reenters |-> FALSE]

Envs ==
    {NoFault,
     [NoFault EXCEPT !.id_fails = TRUE],
     [NoFault EXCEPT !.ecrecover_fails = TRUE],
     [NoFault EXCEPT !.pay_fails = TRUE],
     [NoFault EXCEPT !.reenters = TRUE]}

\* The withdrawals make one external call, pay.
WithdrawEnvs == {NoFault, [NoFault EXCEPT !.pay_fails = TRUE]}

\* IEVVMCore::evvmID() on the contract at addr.
evvm_id_call(addr, env) ==
    IF addr \notin Ledgers \/ env.id_fails THEN Err("call")
    ELSE Ok(EvvmIdOf(addr))

(***************************************************************************)
(* evvm-cafhe/src/lib.rs                                                   *)
(***************************************************************************)

Storage(core, owner, nonces, settled) ==
    [evvm_core |-> core, owner_of_shop |-> owner, check_async_nonce |-> nonces,
     paid |-> settled]

\* What a handler leaves behind: the storage, its result, the steps it ran,
\* what signature verification returned, the calls it made to the ledger and
\* the calls the ledger made back into the contract meanwhile.
Outcome(st, result, steps, sigres, calls, callbacks) ==
    [st |-> st, result |-> result, steps |-> steps, sigres |-> sigres,
     calls |-> calls, callbacks |-> callbacks]

LedgerCall(fn, to, args, ok) == [fn |-> fn, to |-> to, args |-> args, ok |-> ok]

\* Built with the SDK's "reentrant" feature instead.
ReentrancyAllowed_FeatureOn == TRUE

\* The Stylus entrypoint is built without the SDK's "reentrant" feature: a
\* call that arrives while the contract is executing reverts.
ReentrancyAllowed == FALSE

\* The replay check left out.
NonceUsed_Never(nonces, client_address, nonce) == FALSE

\* check_async_nonce.getter(client_address).getter(nonce).get()
NonceUsed(nonces, client_address, nonce) == nonces[client_address][nonce]

\* The client's inner map replaced instead of one entry set.
MarkNonce_Overwrite(nonces, client_address, nonce) ==
    [nonces EXCEPT ![client_address] = [n \in DOMAIN @ |-> n = nonce]]

\* The write left out.
MarkNonce_Skipped(nonces, client_address, nonce) == nonces

\* The nonce marked for every client.
MarkNonce_AllClients(nonces, client_address, nonce) ==
    [a \in DOMAIN nonces |-> [nonces[a] EXCEPT ![nonce] = TRUE]]

\* check_async_nonce.setter(client_address).setter(nonce).set(true)
MarkNonce(nonces, client_address, nonce) ==
    [nonces EXCEPT ![client_address][nonce] = TRUE]

\* The `if !is_valid` test left out: any recovered signer is accepted.
SignatureAccepted_OkOnly(ver) == ver.ok

\* .map_err(|_| INVALID_SIGNATURE)?; if !is_valid { return Err(..) }
SignatureAccepted(ver) == ver.ok /\ ver.val

\* The evvmID failure reported as a signature failure.
EvvmIdError_Signature == "InvalidSignature"

\* evvm_id(..).map_err(|_| errors::PAYMENT_FAILED)
EvvmIdError == "PaymentFailed"

\* The priority fee not forwarded: pay is told the fee is 0.
OrderPayArgs_FeeDropped(req) ==
    <<req.client_address, ShopAddress, <<>>, ETHER_ADDRESS,
      req.total_price_plaintext,
      req.input_encrypted_total_price.ct_hash,
      req.input_encrypted_total_price.security_zone,
      req.input_encrypted_total_price.utype,
      req.input_encrypted_total_price.signature,
      0,
      req.input_encrypted_priority_fee.ct_hash,
      req.input_encrypted_priority_fee.security_zone,
      req.input_encrypted_priority_fee.utype,
      req.input_encrypted_priority_fee.signature,
      req.nonce_evvm, req.priority_flag_evvm, ADDRESS_ZERO, <<>> >>

\* The order's own nonce passed as the ledger's nonce.
OrderPayArgs_OrderNonce(req) ==
    <<req.client_address, ShopAddress, <<>>, ETHER_ADDRESS,
      req.total_price_plaintext,
      req.input_encrypted_total_price.ct_hash,
      req.input_encrypted_total_price.security_zone,
      req.input_encrypted_total_price.utype,
      req.input_encrypted_total_price.signature,
      req.priority_fee_plaintext,
      req.input_encrypted_priority_fee.ct_hash,
      req.input_encrypted_priority_fee.security_zone,
      req.input_encrypted_priority_fee.utype,
      req.input_encrypted_priority_fee.signature,
      req.nonce, req.priority_flag_evvm, ADDRESS_ZERO, <<>> >>

\* The arguments order_coffee passes to pay, in the order written.
OrderPayArgs(req) ==
    <<req.client_address, ShopAddress, <<>>, ETHER_ADDRESS,
      req.total_price_plaintext,
      req.input_encrypted_total_price.ct_hash,
      req.input_encrypted_total_price.security_zone,
      req.input_encrypted_total_price.utype,
      req.input_encrypted_total_price.signature,
      req.priority_fee_plaintext,
      req.input_encrypted_priority_fee.ct_hash,
      req.input_encrypted_priority_fee.security_zone,
      req.input_encrypted_priority_fee.utype,
      req.input_encrypted_priority_fee.signature,
      req.nonce_evvm, req.priority_flag_evvm, ADDRESS_ZERO, <<>> >>

\* The type of each expression in the argument list the three pay calls
\* are written with, under the name its comment gives it.
PayCallTypes ==
    << <<"from", "address">>, <<"to", "address">>,
       <<"toIdentity", "string">>, <<"token", "address">>,
       <<"amountPlaintext", "uint256">>,
       <<"inputEncryptedAmount_ctHash", "uint256">>,
       <<"inputEncryptedAmount_securityZone", "uint8">>,
       <<"inputEncryptedAmount_utype", "uint8">>,
       <<"inputEncryptedAmount_signature", "bytes">>,
       <<"priorityFeePlaintext", "uint256">>,
       <<"inputEncryptedPriorityFee_ctHash", "uint256">>,
       <<"inputEncryptedPriorityFee_securityZone", "uint8">>,
       <<"inputEncryptedPriorityFee_utype", "uint8">>,
       <<"inputEncryptedPriorityFee_signature", "bytes">>,
       <<"nonce", "uint256">>, <<"priorityFlag", "bool">>,
       <<"executor", "address">>, <<"signature", "bytes">> >>

\* interface IEVVMCore { function pay(..) }: the declared parameters.
IEVVMCore_pay ==
    << <<"from", "address">>, <<"to", "address">>,
       <<"toIdentity", "string">>, <<"token", "address">>,
       <<"amountPlaintext", "uint256">>,
       <<"inputEncryptedAmount", "bytes32">>,
       <<"inputAmountProof", "bytes">>,
       <<"priorityFeePlaintext", "uint256">>,
       <<"inputEncryptedPriorityFee", "bytes32">>,
       <<"inputFeeProof", "bytes">>,
       <<"nonce", "uint256">>, <<"priorityFlag", "bool">>,
       <<"executor", "address">>, <<"signature", "bytes">> >>

SigResult(ver) ==
    IF ver.ok THEN (IF ver.val THEN "Ok(true)" ELSE "Ok(false)") ELSE ver.err

\* The four fields written one after the other with nothing between them.
order_inputs_Unseparated(coffee_type, quantity, total_price_plaintext, nonce) ==
    coffee_type \o to_string(quantity) \o to_string(total_price_plaintext)
      \o to_string(nonce)

\* let inputs = format!("{},{},{},{}", coffee_type, quantity,
\*                      total_price_plaintext, nonce)
order_inputs(coffee_type, quantity, total_price_plaintext, nonce) ==
    coffee_type \o <<",">> \o to_string(quantity) \o <<",">>
      \o to_string(total_price_plaintext) \o <<",">> \o to_string(nonce)

RECURSIVE order_coffee(_, _, _)

\* The nonce marked before pay is called, and left marked when pay fails.
pay_then_mark_MarkFirst(st, req, env, id_call, sigres) ==
    LET marked == [st EXCEPT
                      !.check_async_nonce[req.client_address][req.nonce] = TRUE]
        pay == LedgerCall("pay", st.evvm_core, OrderPayArgs(req),
                          ~env.pay_fails)
    IN  IF ~pay.ok
        THEN Outcome(marked, "PaymentFailed",
                     <<"evvm_id", "signature", "nonce_check", "nonce_mark",
                       "pay">>, sigres, <<id_call, pay>>, <<>>)
        ELSE Outcome([marked EXCEPT
                        !.paid[req.client_address][req.nonce] = @ + 1],
                     "Ok",
                     <<"evvm_id", "signature", "nonce_check", "nonce_mark",
                       "pay">>, sigres, <<id_call, pay>>, <<>>)

\* The result of pay dropped: the order completes whether or not pay failed.
pay_then_mark_IgnorePayError(st, req, env, id_call, sigres) ==
    LET pay == LedgerCall("pay", st.evvm_core, OrderPayArgs(req),
                          ~env.pay_fails)
        settled == IF pay.ok
                   THEN [st EXCEPT
                           !.paid[req.client_address][req.nonce] = @ + 1]
                   ELSE st
    IN  Outcome([settled EXCEPT
                    !.check_async_nonce[req.client_address][req.nonce] = TRUE],
                "Ok",
                <<"evvm_id", "signature", "nonce_check", "pay", "nonce_mark">>,
                sigres, <<id_call, pay>>, <<>>)

\* order_coffee from the pay call on: pay, then the nonce mark.  id_call is
\* the evvmID call already made, sigres the verification result.
pay_then_mark(st, req, env, id_call, sigres) ==
    \* While it runs pay the ledger may call order_coffee again.
    LET reentered == env.reenters /\ ReentrancyAllowed
        inner == order_coffee(st, req, NoFault)
        during == IF reentered THEN inner.st ELSE st
        callbacks == IF ~env.reenters THEN <<>>
                     ELSE IF reentered THEN <<inner.result>>
                     ELSE <<"reverted">>
        pay == LedgerCall("pay", st.evvm_core, OrderPayArgs(req),
                          ~env.pay_fails)
    IN
    IF ~pay.ok
    THEN Outcome(during, "PaymentFailed",
                 <<"evvm_id", "signature", "nonce_check", "pay">>,
                 sigres, <<id_call, pay>>, callbacks)
    ELSE
    LET settled == [during EXCEPT
                      !.paid[req.client_address][req.nonce] = @ + 1]
        marked == [settled EXCEPT
                      !.check_async_nonce =
                          MarkNonce(@, req.client_address, req.nonce)]
    IN  Outcome(marked, "Ok",
                <<"evvm_id", "signature", "nonce_check", "pay", "nonce_mark">>,
                sigres, <<id_call, pay>>, callbacks)

\* The nonce checked before the signature.
order_coffee_NonceFirst(st, req, env) ==
    LET evvm_id == evvm_id_call(st.evvm_core, env)
        id_call == LedgerCall("evvmID", st.evvm_core, <<>>, evvm_id.ok)
        inputs == req.coffee_type \o <<",">> \o to_string(req.quantity)
                    \o <<",">> \o to_string(req.total_price_plaintext)
                    \o <<",">> \o to_string(req.nonce)
        ver == signature_verification(to_string(evvm_id.val), orderCoffee,
                   inputs, req.signature, req.client_address,
                   env.ecrecover_fails)
    IN  IF ~evvm_id.ok
        THEN Outcome(st, EvvmIdError, <<"evvm_id">>, "not run", <<id_call>>,
                     <<>>)
        ELSE IF NonceUsed(st.check_async_nonce, req.client_address, req.nonce)
        THEN Outcome(st, "NonceAlreadyUsed", <<"evvm_id", "nonce_check">>,
                     SigResult(ver), <<id_call>>, <<>>)
        ELSE IF ~SignatureAccepted(ver)
        THEN Outcome(st, "InvalidSignature",
                     <<"evvm_id", "nonce_check", "signature">>, SigResult(ver),
                     <<id_call>>, <<>>)
        ELSE pay_then_mark(st, req, env, id_call, SigResult(ver))

\* The total price written before the quantity in the verified message.
order_coffee_PriceFirst(st, req, env) ==
    LET evvm_id == evvm_id_call(st.evvm_core, env)
        id_call == LedgerCall("evvmID", st.evvm_core, <<>>, evvm_id.ok)
        inputs == req.coffee_type \o <<",">>
                    \o to_string(req.total_price_plaintext)
                    \o <<",">> \o to_string(req.quantity)
                    \o <<",">> \o to_string(req.nonce)
        ver == signature_verification(to_string(evvm_id.val), orderCoffee,
                   inputs, req.signature, req.client_address,
                   env.ecrecover_fails)
    IN  IF ~evvm_id.ok
        THEN Outcome(st, EvvmIdError, <<"evvm_id">>, "not run", <<id_call>>,
                     <<>>)
        ELSE IF ~SignatureAccepted(ver)
        THEN Outcome(st, "InvalidSignature", <<"evvm_id", "signature">>,
                     SigResult(ver), <<id_call>>, <<>>)
        ELSE IF NonceUsed(st.check_async_nonce, req.client_address, req.nonce)
        THEN Outcome(st, "NonceAlreadyUsed",
                     <<"evvm_id", "signature", "nonce_check">>, SigResult(ver),
                     <<id_call>>, <<>>)
        ELSE pay_then_mark(st, req, env, id_call, SigResult(ver))

\* The priority fee added to the price written into the verified message.
order_coffee_FeeInPrice(st, req, env) ==
    LET evvm_id == evvm_id_call(st.evvm_core, env)
        id_call == LedgerCall("evvmID", st.evvm_core, <<>>, evvm_id.ok)
        inputs == req.coffee_type \o <<",">> \o to_string(req.quantity)
                    \o <<",">>
                    \o to_string(req.total_price_plaintext
                                   + req.priority_fee_plaintext)
                    \o <<",">> \o to_string(req.nonce)
        ver == signature_verification(to_string(evvm_id.val), orderCoffee,
                   inputs, req.signature, req.client_address,
                   env.ecrecover_fails)
    IN  IF ~evvm_id.ok
        THEN Outcome(st, EvvmIdError, <<"evvm_id">>, "not run", <<id_call>>,
                     <<>>)
        ELSE IF ~SignatureAccepted(ver)
        THEN Outcome(st, "InvalidSignature", <<"evvm_id", "signature">>,
                     SigResult(ver), <<id_call>>, <<>>)
        ELSE IF NonceUsed(st.check_async_nonce, req.client_address, req.nonce)
        THEN Outcome(st, "NonceAlreadyUsed",
                     <<"evvm_id", "signature", "nonce_check">>, SigResult(ver),
                     <<id_call>>, <<>>)
        ELSE pay_then_mark(st, req, env, id_call, SigResult(ver))

order_coffee(st, req, env) ==
    LET evvm_core_addr == st.evvm_core
        evvm_id == evvm_id_call(evvm_core_addr, env)
        id_call == LedgerCall("evvmID", evvm_core_addr, <<>>, evvm_id.ok)
    IN
    IF ~evvm_id.ok
    THEN Outcome(st, EvvmIdError, <<"evvm_id">>, "not run", <<id_call>>, <<>>)
    ELSE
    LET inputs == order_inputs(req.coffee_type, req.quantity,
                               req.total_price_plaintext, req.nonce)
        ver == signature_verification(to_string(evvm_id.val), orderCoffee,
                   inputs, req.signature, req.client_address,
                   env.ecrecover_fails)
    IN
    IF ~SignatureAccepted(ver)
    THEN Outcome(st, "InvalidSignature", <<"evvm_id", "signature">>,
                 SigResult(ver), <<id_call>>, <<>>)
    ELSE
    LET nonce_used == NonceUsed(st.check_async_nonce, req.client_address,
                                req.nonce)
    IN
    IF nonce_used
    THEN Outcome(st, "NonceAlreadyUsed",
                 <<"evvm_id", "signature", "nonce_check">>, SigResult(ver),
                 <<id_call>>, <<>>)
    ELSE pay_then_mark(st, req, env, id_call, SigResult(ver))

\* The nonce checked and consumed for the submitter when the submitter is a
\* client, in place of client_address.
order_coffee_entry_ForSender(st, sender, req, env) ==
    IF sender \in Clients
    THEN order_coffee(st, [req EXCEPT !.client_address = sender], env)
    ELSE order_coffee(st, req, env)

\* The public entry point as the transaction reaches it: msg::sender is at
\* hand in the call context and the body never reads it.
order_coffee_entry(st, sender, req, env) == order_coffee(st, req, env)

initialize(st, evvm_core_address, owner) ==
    Outcome([st EXCEPT !.evvm_core = evvm_core_address,
                       !.owner_of_shop = owner],
            "Ok", <<"set_evvm_core", "set_owner">>, "not run", <<>>, <<>>)

\* The arguments withdraw_rewards and withdraw_funds pass to pay; the two
\* lists differ in the token only.
WithdrawPayArgs(token, req) ==
    <<ShopAddress, req.to, <<>>, token, 0,
      req.input_encrypted_balance.ct_hash,
      req.input_encrypted_balance.security_zone,
      req.input_encrypted_balance.utype,
      req.input_encrypted_balance.signature,
      0,
      req.input_encrypted_priority_fee.ct_hash,
      req.input_encrypted_priority_fee.security_zone,
      req.input_encrypted_priority_fee.utype,
      req.input_encrypted_priority_fee.signature,
      req.nonce_evvm, req.priority_flag_evvm, ADDRESS_ZERO, <<>> >>

\* withdraw_rewards after its authorization check.
rewards_transfer(st, req, env) ==
    LET evvm_core_addr == st.evvm_core
        pay == LedgerCall("pay", evvm_core_addr,
                          WithdrawPayArgs(PRINCIPAL_TOKEN_ADDRESS, req),
                          ~env.pay_fails)
    IN  IF ~pay.ok
        THEN Outcome(st, "PaymentFailed", <<"owner_check", "pay">>, "not run",
                     <<pay>>, <<>>)
        ELSE Outcome(st, "Ok", <<"owner_check", "pay">>, "not run", <<pay>>,
                     <<>>)

\* The authorization check left out.
withdraw_rewards_Unguarded(st, sender, req, env) == rewards_transfer(st, req, env)

withdraw_rewards(st, sender, req, env) ==
    IF sender # st.owner_of_shop
    THEN Outcome(st, "Unauthorized", <<"owner_check">>, "not run", <<>>, <<>>)
    ELSE rewards_transfer(st, req, env)

\* withdraw_funds after its authorization check.
funds_transfer(st, req, env) ==
    LET evvm_core_addr == st.evvm_core
        pay == LedgerCall("pay", evvm_core_addr,
                          WithdrawPayArgs(ETHER_ADDRESS, req), ~env.pay_fails)
    IN  IF ~pay.ok
        THEN Outcome(st, "PaymentFailed", <<"owner_check", "pay">>, "not run",
                     <<pay>>, <<>>)
        ELSE Outcome(st, "Ok", <<"owner_check", "pay">>, "not run", <<pay>>,
                     <<>>)

withdraw_funds(st, sender, req, env) ==
    IF sender # st.owner_of_shop
    THEN Outcome(st, "Unauthorized", <<"owner_check">>, "not run", <<>>, <<>>)
    ELSE funds_transfer(st, req, env)

is_this_nonce_used(client_address, nonce) ==
    check_async_nonce[client_address][nonce]


(***************************************************************************)
(* Inputs                                                                  *)
(***************************************************************************)

SigBytes(g) == g.r \o g.s \o <<g.v>>

\* The same (r, s) with the recovery id written as 0 or 1.
SigBytesLowV(g) == g.r \o g.s \o <<g.v - 27>>

MalformedSignatures ==
    {Rep(1, 64),                              \* one byte short
     Rep(1, 66),                              \* one byte long
     Rep(1, 64) \o <<30>>,                    \* v neither 0, 1, 27 nor 28
     Rep(0, 32) \o Rep(1, 32) \o <<27>>}      \* r = 0: no recovery

\* Signatures offered to order_coffee: every signature the clients made
\* for an order at one of the Prices, some of them again with v written as
\* 0 or 1, and the malformed ones.
SignatureInputs ==
    {SigBytes(g) : g \in {h \in Signatures : h.order.total_price \in Prices}}
      \cup {SigBytesLowV(g) : g \in {h \in Signatures :
                   h.order.total_price \in Prices /\ h.order.nonce = 7}}
      \cup MalformedSignatures

OrderRequests ==
    [client_address : Clients, coffee_type : CoffeeTypes,
     quantity : Quantities, total_price_plaintext : Prices,
     input_encrypted_total_price : EncryptedInputs, nonce : Nonces,
     signature : SignatureInputs, priority_fee_plaintext : PriorityFees,
     input_encrypted_priority_fee : EncryptedInputs, nonce_evvm : EvvmNonces,
     priority_flag_evvm : PriorityFlags]

WithdrawRequests ==
    [to : Owners, input_encrypted_balance : EncryptedInputs,
     nonce_evvm : EvvmNonces, priority_flag_evvm : PriorityFlags,
     input_encrypted_priority_fee : EncryptedInputs]

(***************************************************************************)
(* The state machine                                                       *)
(***************************************************************************)

Current == Storage(evvm_core, owner_of_shop, check_async_nonce, paid)

\* No single function has been exercised.
NotInvoked == [op |-> "none"]

\* The task manager's state before any request reached it.
Unused == [grants |-> {}, tickets |-> {}, resolved |-> {}]

Commit(op, sender, client_address, nonce, out) ==
    /\ evvm_core' = out.st.evvm_core
    /\ owner_of_shop' = out.st.owner_of_shop
    /\ check_async_nonce' = out.st.check_async_nonce
    /\ paid' = out.st.paid
    /\ last' = [op |-> op, sender |-> sender, client_address |-> client_address,
                nonce |-> nonce, pre |-> Current, result |-> out.result,
                steps |-> out.steps, sigres |-> out.sigres, calls |-> out.calls,
                callbacks |-> out.callbacks]

Init ==
    /\ evvm_core = ADDRESS_ZERO
    /\ owner_of_shop = ADDRESS_ZERO
    /\ check_async_nonce = [a \in Clients |-> [n \in Nonces |-> FALSE]]
    /\ paid = [a \in Clients |-> [n \in Nonces |-> 0]]
    /\ last = [op |-> "none", sender |-> 0, client_address |-> 0, nonce |-> 0,
               pre |-> Current, result |-> "Ok", steps |-> <<>>,
               sigres |-> "not run", calls |-> <<>>, callbacks |-> <<>>]
    /\ invoked = NotInvoked
    /\ coprocessor = Unused

Initialize ==
    \E sender \in Senders, evvm_core_address \in Ledgers, owner \in Owners :
        /\ Commit("initialize", sender, 0, 0,
                  initialize(Current, evvm_core_address, owner))
        /\ UNCHANGED <<invoked, coprocessor>>

OrderCoffee ==
    \E sender \in Fishers, req \in OrderRequests, env \in Envs :
        /\ paid[req.client_address][req.nonce] < MaxSettle
        /\ Commit("order_coffee", sender, req.client_address, req.nonce,
                  order_coffee(Current, req, env))
        /\ UNCHANGED <<invoked, coprocessor>>

WithdrawRewards ==
    \E sender \in Senders, req \in WithdrawRequests, env \in WithdrawEnvs :
        /\ Commit("withdraw_rewards", sender, 0, 0,
                  withdraw_rewards(Current, sender, req, env))
        /\ UNCHANGED <<invoked, coprocessor>>

WithdrawFunds ==
    \E sender \in Senders, req \in WithdrawRequests, env \in WithdrawEnvs :
        /\ Commit("withdraw_funds", sender, 0, 0,
                  withdraw_funds(Current, sender, req, env))
        /\ UNCHANGED <<invoked, coprocessor>>

\* The view function is_this_nonce_used(&self, ..): it reads the registry
\* and returns the entry.
IsThisNonceUsed ==
    \E sender \in Fishers, client_address \in Clients, nonce \in Nonces :
        /\ Commit("is_this_nonce_used", sender, client_address, nonce,
                  Outcome(Current,
                          IF is_this_nonce_used(client_address, nonce)
                          THEN "true" ELSE "false",
                          <<>>, "not run", <<>>, <<>>))
        /\ UNCHANGED <<invoked, coprocessor>>

Next ==
    \/ Initialize \/ OrderCoffee \/ WithdrawRewards \/ WithdrawFunds
    \/ IsThisNonceUsed

Spec == Init /\ [][Next]_vars

(***************************************************************************)
(* order_coffee field by field: the shop is set up once, then orders are   *)
(* relayed with every signed price, every priority fee and every signature *)
(* a client has made; invoked keeps the request of the last order.         *)
(***************************************************************************)

\* Orders are relayed until this many have been settled.
MaxOrders == 1

\* Priority fees a relayer may put into the request.
OfferedFees == PriorityFees \cup {1}

FieldRequests ==
    [client_address : Clients, coffee_type : CoffeeTypes,
     quantity : Quantities, total_price_plaintext : SignedPrices,
     input_encrypted_total_price : EncryptedInputs, nonce : Nonces,
     signature : {SigBytes(g) : g \in Signatures} \cup MalformedSignatures,
     priority_fee_plaintext : OfferedFees,
     input_encrypted_priority_fee : EncryptedInputs, nonce_evvm : EvvmNonces,
     priority_flag_evvm : PriorityFlags]

\* initialize as called once, right after deployment.
SetUpShop ==
    /\ last.op = "none"
    /\ \E sender \in Senders :
          Commit("initialize", sender, 0, 0, initialize(Current, 20, sender))
    /\ UNCHANGED <<invoked, coprocessor>>

SettledOrders ==
    Cardinality({an \in Clients \X Nonces : paid[an[1]][an[2]] > 0})

OrderCoffeeFields ==
    \E sender \in Fishers, req \in FieldRequests :
        /\ SettledOrders < MaxOrders
        /\ paid[req.client_address][req.nonce] < MaxSettle
        /\ Commit("order_coffee", sender, req.client_address, req.nonce,
                  order_coffee_entry(Current, sender, req, NoFault))
        /\ invoked' = [op |-> "order_coffee", req |-> req, env |-> NoFault]
        /\ UNCHANGED coprocessor

\* A client submits an order a client has signed, their own or the other
\* client's, without a relayer.
OrderCoffeeByClient ==
    \E sender \in Clients, g \in Signatures, fee \in OfferedFees :
        LET req == [client_address |-> g.key,
                    coffee_type |-> g.order.coffee_type,
                    quantity |-> g.order.quantity,
                    total_price_plaintext |-> g.order.total_price,
                    input_encrypted_total_price |->
                        CHOOSE e \in EncryptedInputs : TRUE,
                    nonce |-> g.order.nonce,
                    signature |-> SigBytes(g),
                    priority_fee_plaintext |-> fee,
                    input_encrypted_priority_fee |->
                        CHOOSE e \in EncryptedInputs : TRUE,
                    nonce_evvm |-> CHOOSE n \in EvvmNonces : TRUE,
                    priority_flag_evvm |-> CHOOSE b \in PriorityFlags : TRUE]
        IN  /\ SettledOrders < MaxOrders
            /\ paid[req.client_address][req.nonce] < MaxSettle
            /\ Commit("order_coffee", sender, req.client_address, req.nonce,
                      order_coffee_entry(Current, sender, req, NoFault))
            /\ invoked' = [op |-> "order_coffee", req |-> req,
                           env |-> NoFault]
            /\ UNCHANGED coprocessor

OrderNext == SetUpShop \/ OrderCoffeeFields \/ OrderCoffeeByClient

OrderSpec == Init /\ [][OrderNext]_vars

(***************************************************************************)
(* fhe-stylus/src/signature.rs, one function at a time: a call is drawn    *)
(* with its arguments, then the function is applied and invoked keeps what *)
(* it returned.  The contract is not involved.                             *)
(***************************************************************************)

\* "<coffeeType>,<quantity>,<totalPrice>,<nonce>" of a signed order.
SignedInputs(o) ==
    o.coffee_type \o <<",">> \o to_string(o.quantity) \o <<",">>
      \o to_string(o.total_price) \o <<",">> \o to_string(o.nonce)

\* The string with the character at position i replaced.
Mutated(str, i) == [str EXCEPT ![i] = IF @ = "X" THEN "Y" ELSE "X"]

Triple(evvm_id, function_name, inputs) ==
    [evvm_id |-> evvm_id, function_name |-> function_name, inputs |-> inputs]

\* One signed order, as the caller of signature_verification passes it.
SampleOrder ==
    [evvm_id |-> 1, coffee_type |-> <<"L">>, quantity |-> 2, total_price |-> 5,
     nonce |-> 7]

SampleTriple ==
    Triple(to_string(SampleOrder.evvm_id), orderCoffee,
           SignedInputs(SampleOrder))

\* Arguments of signature_verification: every signed order, the sample
\* with one character of one argument changed, and the sample with its
\* first field moved into the function name or the name into the id.
VerificationTriples ==
    {Triple(to_string(o.evvm_id), orderCoffee, SignedInputs(o)) :
        o \in SignedOrders}
      \cup {[SampleTriple EXCEPT !.evvm_id = Mutated(@, i)] :
                i \in 1..Len(SampleTriple.evvm_id)}
      \cup {[SampleTriple EXCEPT !.function_name = Mutated(@, i)] :
                i \in 1..Len(SampleTriple.function_name)}
      \cup {[SampleTriple EXCEPT !.inputs = Mutated(@, i)] :
                i \in 1..Len(SampleTriple.inputs)}
      \cup {Triple(<<"1">>, orderCoffee \o <<",", "L">>,
                   <<"2", ",", "5", ",", "7">>),
            Triple(<<"1", ",">> \o orderCoffee, <<"L">>,
                   <<"2", ",", "5", ",", "7">>)}

\* Coffee types as a caller may write them: a plain name, names holding
\* commas or digits, a number, and the empty string.
FreeCoffeeTypes ==
    {<<"L">>, <<"L", ",", "2">>, <<"L", "2">>, <<"2">>, <<"2", ",", "5">>,
     <<>>}

\* Order fields over those types, with one- and two-digit numbers made of
\* the same digits.
FreeOrders ==
    [evvm_id : EvvmIds, coffee_type : FreeCoffeeTypes, quantity : {2, 5, 25},
     total_price : {5, 57}, nonce : Nonces]

\* The triple order_coffee passes to signature_verification for an order.
OrderTriple(o) ==
    Triple(to_string(o.evvm_id), orderCoffee,
           order_inputs(o.coffee_type, o.quantity, o.total_price, o.nonce))

\* Messages passed to recover_signer: every signed message and the sample
\* with one character changed, at every position.
RecoveryMessages ==
    {SignedMessage(o) : o \in SignedOrders}
      \cup {Mutated(SignedMessage(SampleOrder), i) :
                i \in 1..Len(SignedMessage(SampleOrder))}

\* A signature the sample's first client made, to be damaged.
SampleSignature == CHOOSE g \in Signatures : g.key = 10 /\ g.order = SampleOrder

\* Signatures passed to the verifier: the clients' signatures as made and
\* with v written as 0 or 1, one with every other value of v, and the
\* malformed ones.
VerifierSignatures ==
    {SigBytes(g) : g \in Signatures} \cup {SigBytesLowV(g) : g \in Signatures}
      \cup {SampleSignature.r \o SampleSignature.s \o <<v>> :
                v \in {0, 1, 2, 26, 27, 28, 29, 255}}
      \cup MalformedSignatures

\* Byte strings passed to split_signature: 65 bytes ending in every byte
\* value, and other lengths ending in valid and invalid values of v.
SplitInputs ==
    {[i \in 1..64 |-> i] \o <<v>> : v \in 0..255}
      \cup {[i \in 1..(n - 1) |-> i] \o <<v>> :
                n \in {1, 2, 64, 66, 130}, v \in {0, 1, 27, 28, 30, 255}}
      \cup {<<>>}

ExpectedSigners == Clients \cup {StrangerAddress, ADDRESS_ZERO}

Pending == [ok |-> FALSE, val |-> 0, err |-> "pending"]

LibraryCall(op, triple, message, signature, expected_signer, call_fails) ==
    [op |-> op, evvm_id |-> triple.evvm_id,
     function_name |-> triple.function_name, inputs |-> triple.inputs,
     message |-> message, signature |-> signature,
     expected_signer |-> expected_signer, call_fails |-> call_fails,
     result |-> Pending, calls |-> <<>>]

NoTriple == Triple(<<>>, <<>>, <<>>)

LibraryCalls ==
    {LibraryCall("split_signature", NoTriple, <<>>, sig, 0, FALSE) :
        sig \in SplitInputs}
      \cup {LibraryCall("recover_signer", NoTriple, m, sig, 0, f) :
                m \in RecoveryMessages, sig \in VerifierSignatures,
                f \in BOOLEAN}
      \cup {LibraryCall("signature_verification", tr, <<>>, sig, e, f) :
                tr \in VerificationTriples, sig \in VerifierSignatures,
                e \in ExpectedSigners, f \in BOOLEAN}
      \cup {LibraryCall("signature_verification", OrderTriple(o), <<>>,
                        SigBytes(SampleSignature), SampleSignature.key,
                        FALSE) : o \in FreeOrders}

SigInit ==
    /\ evvm_core = ADDRESS_ZERO
    /\ owner_of_shop = ADDRESS_ZERO
    /\ check_async_nonce = [a \in Clients |-> [n \in Nonces |-> FALSE]]
    /\ paid = [a \in Clients |-> [n \in Nonces |-> 0]]
    /\ last = [op |-> "none", sender |-> 0, client_address |-> 0, nonce |-> 0,
               pre |-> Current, result |-> "Ok", steps |-> <<>>,
               sigres |-> "not run", calls |-> <<>>, callbacks |-> <<>>]
    /\ invoked \in LibraryCalls
    /\ coprocessor = Unused

Contract == <<evvm_core, owner_of_shop, check_async_nonce, last, paid>>

SplitSignature ==
    /\ invoked.op = "split_signature" /\ invoked.result.err = "pending"
    /\ invoked' = [invoked EXCEPT !.result = split_signature(invoked.signature)]
    /\ UNCHANGED <<Contract, coprocessor>>

RecoverSigner ==
    /\ invoked.op = "recover_signer" /\ invoked.result.err = "pending"
    /\ invoked' = [invoked EXCEPT
                      !.result = recover_signer(invoked.message,
                                     invoked.signature, invoked.call_fails),
                      !.calls = recover_signer_calls(invoked.message,
                                    invoked.signature)]
    /\ UNCHANGED <<Contract, coprocessor>>

SignatureVerification ==
    /\ invoked.op = "signature_verification" /\ invoked.result.err = "pending"
    /\ invoked' = [invoked EXCEPT
                      !.result = signature_verification(invoked.evvm_id,
                          invoked.function_name, invoked.inputs,
                          invoked.signature, invoked.expected_signer,
                          invoked.call_fails),
                      !.calls = signature_verification_calls(
                          invoked.evvm_id, invoked.function_name,
                          invoked.inputs, invoked.signature)]
    /\ UNCHANGED <<Contract, coprocessor>>

SigNext == SplitSignature \/ RecoverSigner \/ SignatureVerification

SigSpec == SigInit /\ [][SigNext]_vars

(***************************************************************************)
(* fhe-stylus/src/cofhe.rs and cofhe_interfaces.rs: the wrappers around    *)
(* the task manager (ITaskManager).  The task manager is the environment:  *)
(* a call to it fails or returns the handle the coprocessor chose, and     *)
(* verifyInput is accepted only for inputs the coprocessor can attest.     *)
(***************************************************************************)

\* interfaces.rs: the type constants for input verification.
EUINT8_TYPE == 0

EUINT16_TYPE == 1

EUINT32_TYPE == 2

EUINT64_TYPE == 3

EUINT128_TYPE == 4

EUINT256_TYPE == 5

EBOOL_TYPE == 6

EADDRESS_TYPE == 7

\* The address tag given the value of the 256-bit tag.
Utils_Duplicate ==
    [EUINT8_TFHE |-> 2, EUINT16_TFHE |-> 3, EUINT32_TFHE |-> 4,
     EUINT64_TFHE |-> 5, EUINT128_TFHE |-> 6, EUINT256_TFHE |-> 8,
     EADDRESS_TFHE |-> 8, EBOOL_TFHE |-> 0]

\* pub mod Utils: the TFHE type tags.
Utils ==
    [EUINT8_TFHE |-> 2, EUINT16_TFHE |-> 3, EUINT32_TFHE |-> 4,
     EUINT64_TFHE |-> 5, EUINT128_TFHE |-> 6, EUINT256_TFHE |-> 8,
     EADDRESS_TFHE |-> 7, EBOOL_TFHE |-> 0]

\* Select and the reserved variant next to it with their slots exchanged.
FunctionIdVariants_Gap ==
    << <<"_0", 0>>, <<"_1", 1>>, <<"Cast", 2>>, <<"SealOutput", 3>>,
       <<"_5", 4>>, <<"Select", 5>>, <<"Decrypt", 6>>, <<"Sub", 7>>,
       <<"Add", 8>>, <<"Xor", 9>>, <<"And", 10>>, <<"Or", 11>>, <<"Not", 12>>,
       <<"Div", 13>>, <<"Rem", 14>>, <<"Mul", 15>>, <<"Shl", 16>>,
       <<"Shr", 17>>, <<"Gte", 18>>, <<"Lte", 19>>, <<"Lt", 20>>, <<"Gt", 21>>,
       <<"Min", 22>>, <<"Max", 23>>, <<"Eq", 24>>, <<"Ne", 25>>,
       <<"TrivialEncrypt", 26>>, <<"Random", 27>>, <<"Rol", 28>>,
       <<"Ror", 29>>, <<"Square", 30>>, <<"_31", 31>> >>

\* enum FunctionId, each variant with its discriminant.
FunctionIdVariants ==
    << <<"_0", 0>>, <<"_1", 1>>, <<"Cast", 2>>, <<"SealOutput", 3>>,
       <<"Select", 4>>, <<"_5", 5>>, <<"Decrypt", 6>>, <<"Sub", 7>>,
       <<"Add", 8>>, <<"Xor", 9>>, <<"And", 10>>, <<"Or", 11>>, <<"Not", 12>>,
       <<"Div", 13>>, <<"Rem", 14>>, <<"Mul", 15>>, <<"Shl", 16>>,
       <<"Shr", 17>>, <<"Gte", 18>>, <<"Lte", 19>>, <<"Lt", 20>>, <<"Gt", 21>>,
       <<"Min", 22>>, <<"Max", 23>>, <<"Eq", 24>>, <<"Ne", 25>>,
       <<"TrivialEncrypt", 26>>, <<"Random", 27>>, <<"Rol", 28>>,
       <<"Ror", 29>>, <<"Square", 30>>, <<"_31", 31>> >>

\* FunctionId::<variant> as u8
FunctionId(variant) ==
    FunctionIdVariants[CHOOSE i \in DOMAIN FunctionIdVariants :
                          FunctionIdVariants[i][1] = variant][2]

\* The deployed task manager.
TaskManagerAddress == 30

\* Accounts that call the wrappers (msg::sender).
Callers == {5, 6}

\* Inputs the coprocessor attests: the ciphertext with this hash encodes a
\* value of this type under this submitter's key, and this is its proof.
AttestedInputs ==
    {[ct_hash |-> 72, security_zone |-> 0, utype |-> Utils.EUINT8_TFHE,
      signature |-> <<1, 2>>, sender |-> 5],
     [ct_hash |-> 74, security_zone |-> 0, utype |-> Utils.EUINT32_TFHE,
      signature |-> <<1, 2>>, sender |-> 5],
     [ct_hash |-> 75, security_zone |-> 0, utype |-> Utils.EUINT64_TFHE,
      signature |-> <<1, 2>>, sender |-> 5],
     [ct_hash |-> 78, security_zone |-> 0, utype |-> Utils.EUINT256_TFHE,
      signature |-> <<1, 2>>, sender |-> 6]}

\* What one call to the task manager meets: the call fails for a reason
\* of its own, or the coprocessor answers with the handle `returns`.
TaskEnvs == [tm_fails : BOOLEAN, returns : {900, 901}]

TaskManagerCall(fn, to, args) == [fn |-> fn, to |-> to, args |-> args]

\* What a wrapper leaves behind: its result and its calls to the task manager.
Wrapped(result, calls) == [result |-> result, calls |-> calls]

\* ITaskManager::verifyInput as the coprocessor answers it.
verifyInput(ctHash, securityZone, utype, signature, sender, env) ==
    IF env.tm_fails THEN Err("revert")
    ELSE IF [ct_hash |-> ctHash, security_zone |-> securityZone,
             utype |-> utype, signature |-> signature, sender |-> sender]
              \in AttestedInputs
         THEN Ok(env.returns)
         ELSE Err("revert")

\* ITaskManager::createTask as the coprocessor answers it.
createTask(returnType, funcId, encryptedInputs, extraInputs, env) ==
    IF env.tm_fails THEN Err("revert") ELSE Ok(env.returns)

\* The answer to a call of the task manager: the failure, or what the
\* coprocessor returns.
Answer(env) == IF env.tm_fails THEN Err("revert") ELSE Ok(env.returns)

\* The generic error replaced by the cause of the failure.
Handle_Decoded(result) ==
    IF result.ok THEN Ok(result.val) ELSE Err(result.err)

\* .map_err(|_| CoFHEError::TaskManagerCallFailed)?; Ok(T::from(result))
Handle(result) ==
    IF result.ok THEN Ok(result.val) ELSE Err("TaskManagerCallFailed")

\* The failure of verifyInput dropped: the ciphertext hash is returned.
as_euint64_Unchecked(input, task_manager, sender, env) ==
    LET encrypted_input == [ct_hash |-> input.ct_hash,
                            security_zone |-> input.security_zone,
                            utype |-> Utils.EUINT64_TFHE,
                            signature |-> input.signature]
        result == verifyInput(encrypted_input.ct_hash,
                      encrypted_input.security_zone, encrypted_input.utype,
                      encrypted_input.signature, sender, env)
    IN  Wrapped(IF result.ok THEN Ok(result.val) ELSE Ok(input.ct_hash),
                <<TaskManagerCall("verifyInput", task_manager,
                      <<encrypted_input.ct_hash, encrypted_input.security_zone,
                        encrypted_input.utype, encrypted_input.signature,
                        sender>>)>>)

as_euint64(input, task_manager, sender, env) ==
    LET encrypted_input == [ct_hash |-> input.ct_hash,
                            security_zone |-> input.security_zone,
                            utype |-> Utils.EUINT64_TFHE,
                            signature |-> input.signature]
        result == verifyInput(encrypted_input.ct_hash,
                      encrypted_input.security_zone, encrypted_input.utype,
                      encrypted_input.signature, sender, env)
    IN  Wrapped(Handle(result),
                <<TaskManagerCall("verifyInput", task_manager,
                      <<encrypted_input.ct_hash, encrypted_input.security_zone,
                        encrypted_input.utype, encrypted_input.signature,
                        sender>>)>>)

as_euint8(input, task_manager, sender, env) ==
    LET encrypted_input == [ct_hash |-> input.ct_hash,
                            security_zone |-> input.security_zone,
                            utype |-> Utils.EUINT8_TFHE,
                            signature |-> input.signature]
        result == verifyInput(encrypted_input.ct_hash,
                      encrypted_input.security_zone, encrypted_input.utype,
                      encrypted_input.signature, sender, env)
    IN  Wrapped(Handle(result),
                <<TaskManagerCall("verifyInput", task_manager,
                      <<encrypted_input.ct_hash, encrypted_input.security_zone,
                        encrypted_input.utype, encrypted_input.signature,
                        sender>>)>>)

\* The tag taken from the input instead of the wrapper's own width.
as_euint32_InputTag(input, task_manager, sender, env) ==
    LET encrypted_input == [ct_hash |-> input.ct_hash,
                            security_zone |-> input.security_zone,
                            utype |-> input.utype,
                            signature |-> input.signature]
        result == verifyInput(encrypted_input.ct_hash,
                      encrypted_input.security_zone, encrypted_input.utype,
                      encrypted_input.signature, sender, env)
    IN  Wrapped(Handle(result),
                <<TaskManagerCall("verifyInput", task_manager,
                      <<encrypted_input.ct_hash, encrypted_input.security_zone,
                        encrypted_input.utype, encrypted_input.signature,
                        sender>>)>>)

as_euint32(input, task_manager, sender, env) ==
    LET encrypted_input == [ct_hash |-> input.ct_hash,
                            security_zone |-> input.security_zone,
                            utype |-> Utils.EUINT32_TFHE,
                            signature |-> input.signature]
        result == verifyInput(encrypted_input.ct_hash,
                      encrypted_input.security_zone, encrypted_input.utype,
                      encrypted_input.signature, sender, env)
    IN  Wrapped(Handle(result),
                <<TaskManagerCall("verifyInput", task_manager,
                      <<encrypted_input.ct_hash, encrypted_input.security_zone,
                        encrypted_input.utype, encrypted_input.signature,
                        sender>>)>>)

as_euint256(input, task_manager, sender, env) ==
    LET encrypted_input == [ct_hash |-> input.ct_hash,
                            security_zone |-> input.security_zone,
                            utype |-> Utils.EUINT256_TFHE,
                            signature |-> input.signature]
        result == verifyInput(encrypted_input.ct_hash,
                      encrypted_input.security_zone, encrypted_input.utype,
                      encrypted_input.signature, sender, env)
    IN  Wrapped(Handle(result),
                <<TaskManagerCall("verifyInput", task_manager,
                      <<encrypted_input.ct_hash, encrypted_input.security_zone,
                        encrypted_input.utype, encrypted_input.signature,
                        sender>>)>>)

\* tm.createTask(Call::new(), returnType, funcId, encryptedInputs,
\* extraInputs) as a wrapper makes it, with the result mapped as above.
Submit(task_manager, returnType, funcId, encryptedInputs, extraInputs, env) ==
    Wrapped(Handle(createTask(returnType, funcId, encryptedInputs,
                              extraInputs, env)),
            <<TaskManagerCall("createTask", task_manager,
                  <<returnType, funcId, encryptedInputs, extraInputs>>)>>)

as_ebool(value, task_manager, env) ==
    LET value_uint == IF value THEN 1 ELSE 0
    IN  Submit(task_manager, Utils.EBOOL_TFHE, FunctionId("TrivialEncrypt"),
               <<>>, <<value_uint, Utils.EBOOL_TFHE, 0>>, env)

add(lhs, rhs, task_manager, env) ==
    Submit(task_manager, Utils.EUINT64_TFHE, FunctionId("Add"), <<lhs, rhs>>,
           <<>>, env)

\* The operands passed rhs first.
sub_Swapped(lhs, rhs, task_manager, env) ==
    Submit(task_manager, Utils.EUINT64_TFHE, FunctionId("Sub"), <<rhs, lhs>>,
           <<>>, env)

sub(lhs, rhs, task_manager, env) ==
    Submit(task_manager, Utils.EUINT64_TFHE, FunctionId("Sub"), <<lhs, rhs>>,
           <<>>, env)

mul(lhs, rhs, task_manager, env) ==
    Submit(task_manager, Utils.EUINT64_TFHE, FunctionId("Mul"), <<lhs, rhs>>,
           <<>>, env)

\* The comparison submitted with the type of its operands.
eq_OperandType(lhs, rhs, task_manager, env) ==
    Submit(task_manager, Utils.EUINT256_TFHE, FunctionId("Eq"), <<lhs, rhs>>,
           <<>>, env)

eq(lhs, rhs, task_manager, env) ==
    Submit(task_manager, Utils.EBOOL_TFHE, FunctionId("Eq"), <<lhs, rhs>>,
           <<>>, env)

and(lhs, rhs, task_manager, env) ==
    Submit(task_manager, Utils.EBOOL_TFHE, FunctionId("And"), <<lhs, rhs>>,
           <<>>, env)

or(lhs, rhs, task_manager, env) ==
    Submit(task_manager, Utils.EBOOL_TFHE, FunctionId("Or"), <<lhs, rhs>>,
           <<>>, env)

select(condition, if_true, if_false, task_manager, env) ==
    Submit(task_manager, Utils.EUINT32_TFHE, FunctionId("Select"),
           <<condition, if_true, if_false>>, <<>>, env)

\* tm.allowGlobal(Call::new(), ct.into_inner())
allow_this(ct, task_manager, env) ==
    Wrapped(Handle(Answer(env)),
            <<TaskManagerCall("allowGlobal", task_manager, <<ct>>)>>)

\* The grant made to a fixed account instead of the caller.
allow_sender_Fixed(ct, task_manager, sender, env) ==
    Wrapped(Handle(Answer(env)),
            <<TaskManagerCall("allow", task_manager, <<ct, 5>>)>>)

\* tm.allow(Call::new(), ct.into_inner(), msg::sender())
allow_sender(ct, task_manager, sender, env) ==
    Wrapped(Handle(Answer(env)),
            <<TaskManagerCall("allow", task_manager, <<ct, sender>>)>>)

\* tm.allow(Call::new(), ct.into_inner(), account)
allow(ct, account, task_manager, env) ==
    Wrapped(Handle(Answer(env)),
            <<TaskManagerCall("allow", task_manager, <<ct, account>>)>>)

\* The request made in the name of a fixed account instead of the caller.
decrypt_FixedRequestor(ct, task_manager, sender, env) ==
    Wrapped(Handle(Answer(env)),
            <<TaskManagerCall("createDecryptTask", task_manager, <<ct, 5>>)>>)

\* tm.createDecryptTask(Call::new(), ct.into_inner(), msg::sender())
decrypt(ct, task_manager, sender, env) ==
    Wrapped(Handle(Answer(env)),
            <<TaskManagerCall("createDecryptTask", task_manager,
                              <<ct, sender>>)>>)

\* A poll that fails while the decryption is not resolved.
get_decrypt_result_safe_Strict(ct, task_manager, env) ==
    LET answer == Answer(env)
    IN  Wrapped(IF answer.ok
                THEN IF answer.val[2] THEN Ok(<<answer.val[1], answer.val[2]>>)
                     ELSE Err("OperationFailed")
                ELSE Err("TaskManagerCallFailed"),
                <<TaskManagerCall("getDecryptResultSafe", task_manager,
                                  <<ct>>)>>)

\* let (result, decrypted) = tm.getDecryptResultSafe(Call::new(), ..)
\*     .map_err(..)?; Ok((result, decrypted))
get_decrypt_result_safe(ct, task_manager, env) ==
    LET answer == Answer(env)
    IN  Wrapped(IF answer.ok THEN Ok(<<answer.val[1], answer.val[2]>>)
                ELSE Err("TaskManagerCallFailed"),
                <<TaskManagerCall("getDecryptResultSafe", task_manager,
                                  <<ct>>)>>)

\* The handle types in the signature of each wrapper: its operands and
\* its result.
WrapperTypes ==
    [as_euint8 |-> [operands |-> <<>>, result |-> "Euint8"],
     as_euint32 |-> [operands |-> <<>>, result |-> "Euint32"],
     as_euint64 |-> [operands |-> <<>>, result |-> "Euint64"],
     as_euint256 |-> [operands |-> <<>>, result |-> "Euint256"],
     as_ebool |-> [operands |-> <<>>, result |-> "Ebool"],
     add |-> [operands |-> <<"Euint64", "Euint64">>, result |-> "Euint64"],
     sub |-> [operands |-> <<"Euint64", "Euint64">>, result |-> "Euint64"],
     mul |-> [operands |-> <<"Euint64", "Euint64">>, result |-> "Euint64"],
     eq |-> [operands |-> <<"Euint256", "Euint256">>, result |-> "Ebool"],
     and |-> [operands |-> <<"Ebool", "Ebool">>, result |-> "Ebool"],
     or |-> [operands |-> <<"Ebool", "Ebool">>, result |-> "Ebool"],
     select |-> [operands |-> <<"Ebool", "Euint32", "Euint32">>,
                 result |-> "Euint32"]]

\* Handles passed to the wrappers as operands.
Handles == {101, 102, 103}

\* InEuintN values passed to the as_euintN wrappers; utype is what the
\* caller wrote into the struct.
InEuints ==
    [ct_hash : {72, 74, 75, 78}, security_zone : {0},
     utype : {Utils.EBOOL_TFHE, Utils.EUINT64_TFHE},
     signature : {<<1, 2>>, <<3>>}]

\* invoked after a wrapper returned.
WrapperCall(op, args, sender, env, out) ==
    /\ invoked' = [op |-> op, args |-> args, sender |-> sender, env |-> env,
                   result |-> out.result, calls |-> out.calls]
    /\ UNCHANGED <<Contract, coprocessor>>

AsEuint64 ==
    \E input \in InEuints, sender \in Callers, env \in TaskEnvs :
        WrapperCall("as_euint64", <<input>>, sender, env,
                    as_euint64(input, TaskManagerAddress, sender, env))

AsEuint8 ==
    \E input \in InEuints, sender \in Callers, env \in TaskEnvs :
        WrapperCall("as_euint8", <<input>>, sender, env,
                    as_euint8(input, TaskManagerAddress, sender, env))

AsEuint32 ==
    \E input \in InEuints, sender \in Callers, env \in TaskEnvs :
        WrapperCall("as_euint32", <<input>>, sender, env,
                    as_euint32(input, TaskManagerAddress, sender, env))

AsEuint256 ==
    \E input \in InEuints, sender \in Callers, env \in TaskEnvs :
        WrapperCall("as_euint256", <<input>>, sender, env,
                    as_euint256(input, TaskManagerAddress, sender, env))

AsEbool ==
    \E value \in BOOLEAN, sender \in Callers, env \in TaskEnvs :
        WrapperCall("as_ebool", <<value>>, sender, env,
                    as_ebool(value, TaskManagerAddress, env))

Add ==
    \E lhs \in Handles, rhs \in Handles, sender \in Callers, env \in TaskEnvs :
        WrapperCall("add", <<lhs, rhs>>, sender, env,
                    add(lhs, rhs, TaskManagerAddress, env))

Sub ==
    \E lhs \in Handles, rhs \in Handles, sender \in Callers, env \in TaskEnvs :
        WrapperCall("sub", <<lhs, rhs>>, sender, env,
                    sub(lhs, rhs, TaskManagerAddress, env))

Mul ==
    \E lhs \in Handles, rhs \in Handles, sender \in Callers, env \in TaskEnvs :
        WrapperCall("mul", <<lhs, rhs>>, sender, env,
                    mul(lhs, rhs, TaskManagerAddress, env))

Eq ==
    \E lhs \in Handles, rhs \in Handles, sender \in Callers, env \in TaskEnvs :
        WrapperCall("eq", <<lhs, rhs>>, sender, env,
                    eq(lhs, rhs, TaskManagerAddress, env))

And ==
    \E lhs \in Handles, rhs \in Handles, sender \in Callers, env \in TaskEnvs :
        WrapperCall("and", <<lhs, rhs>>, sender, env,
                    and(lhs, rhs, TaskManagerAddress, env))

Or ==
    \E lhs \in Handles, rhs \in Handles, sender \in Callers, env \in TaskEnvs :
        WrapperCall("or", <<lhs, rhs>>, sender, env,
                    or(lhs, rhs, TaskManagerAddress, env))

Select ==
    \E condition \in Handles, if_true \in Handles, if_false \in Handles,
       sender \in Callers, env \in TaskEnvs :
        WrapperCall("select", <<condition, if_true, if_false>>, sender, env,
                    select(condition, if_true, if_false, TaskManagerAddress,
                           env))

\* Accounts a grant can name: the callers and the contract itself.
Accounts == Callers \cup {ShopAddress}

\* What a call without a return value meets.
UnitEnvs == [tm_fails : BOOLEAN, returns : {<<>>}]

\* What a poll meets: the call fails, or the coprocessor reports
\* (result, decrypted).
PollEnvs == [tm_fails : BOOLEAN, returns : {<<0, FALSE>>, <<42, TRUE>>}]

AllowThis ==
    \E ct \in Handles, sender \in Callers, env \in UnitEnvs :
        WrapperCall("allow_this", <<ct>>, sender, env,
                    allow_this(ct, TaskManagerAddress, env))

AllowSender ==
    \E ct \in Handles, sender \in Callers, env \in UnitEnvs :
        WrapperCall("allow_sender", <<ct>>, sender, env,
                    allow_sender(ct, TaskManagerAddress, sender, env))

Allow ==
    \E ct \in Handles, account \in Accounts, sender \in Callers,
       env \in UnitEnvs :
        WrapperCall("allow", <<ct, account>>, sender, env,
                    allow(ct, account, TaskManagerAddress, env))

Decrypt ==
    \E ct \in Handles, sender \in Callers, env \in UnitEnvs :
        WrapperCall("decrypt", <<ct>>, sender, env,
                    decrypt(ct, TaskManagerAddress, sender, env))

GetDecryptResultSafe ==
    \E ct \in Handles, sender \in Callers, env \in PollEnvs :
        WrapperCall("get_decrypt_result_safe", <<ct>>, sender, env,
                    get_decrypt_result_safe(ct, TaskManagerAddress, env))

CofheNext ==
    \/ AsEuint64 \/ AsEuint8 \/ AsEuint32 \/ AsEuint256 \/ AsEbool
    \/ Add \/ Sub \/ Mul \/ Eq \/ And \/ Or \/ Select
    \/ AllowThis \/ AllowSender \/ Allow \/ Decrypt \/ GetDecryptResultSafe

CofheSpec == Init /\ [][CofheNext]_vars

(***************************************************************************)
(* The task manager behind ITaskManager and the access-control list of     *)
(* IACL: the coprocessor's side of the protocol, of which the source       *)
(* holds the declarations (cofhe_interfaces.rs, interfaces.rs) and the     *)
(* callers (cofhe.rs).  Its state is the set of grants (handle, account),  *)
(* the handles with an accepted decryption request, and the handles whose  *)
(* decryption is resolved.  TaskSpec runs the access and                   *)
(* decryption wrappers of cofhe.rs against it, next to direct calls of     *)
(* accounts and the coprocessor resolving requests.                        *)
(***************************************************************************)

\* Handles the task manager holds.
TaskHandles == {101, 102}

\* IACL::getOwner: 101 belongs to the contract that uses the wrappers,
\* 102 to an account.
getOwner(handle) == IF handle = 101 THEN ShopAddress ELSE 5

\* The plaintext the coprocessor finds behind a handle.
Plaintext(handle) == handle - 59

\* The answer to a call and the state the task manager is left in.
Reply(answer, state) == [answer |-> answer, state |-> state]

\* ITaskManager::allow, made by `caller`: only the owner may grant.
ITaskManager_allow(state, caller, ctHash, account) ==
    IF caller = getOwner(ctHash)
    THEN Reply(Ok(<<>>),
               [state EXCEPT !.grants = @ \cup {<<ctHash, account>>}])
    ELSE Reply(Err("revert"), state)

\* ITaskManager::allowGlobal: the grant to the calling contract itself.
ITaskManager_allowGlobal(state, caller, ctHash) ==
    ITaskManager_allow(state, caller, ctHash, caller)

\* ITaskManager::isAllowed
ITaskManager_isAllowed(state, ctHash, account) ==
    Reply(Ok(<<ctHash, account>> \in state.grants), state)

\* IACL::revoke, made by `caller`: only the owner may revoke.
IACL_revoke(state, caller, handle, account) ==
    IF caller = getOwner(handle)
    THEN Reply(Ok(<<>>),
               [state EXCEPT !.grants = @ \ {<<handle, account>>}])
    ELSE Reply(Err("revert"), state)

\* Every request accepted, whoever the requestor is.
ITaskManager_createDecryptTask_Open(state, ctHash, requestor) ==
    Reply(Ok(<<>>),
          [state EXCEPT !.tickets = @ \cup {ctHash}])

\* ITaskManager::createDecryptTask: the request of the owner, or of an
\* account that holds a grant, is enqueued.
ITaskManager_createDecryptTask(state, ctHash, requestor) ==
    IF requestor = getOwner(ctHash) \/ <<ctHash, requestor>> \in state.grants
    THEN Reply(Ok(<<>>),
               [state EXCEPT !.tickets = @ \cup {ctHash}])
    ELSE Reply(Err("revert"), state)

\* ITaskManager::getDecryptResultSafe
ITaskManager_getDecryptResultSafe(state, ctHash) ==
    Reply(Ok(IF ctHash \in state.resolved THEN <<Plaintext(ctHash), TRUE>>
             ELSE <<0, FALSE>>),
          state)

\* The default value returned while the decryption is not resolved.
ITaskManager_getDecryptResult_Default(state, ctHash) ==
    Reply(Ok(IF ctHash \in state.resolved THEN Plaintext(ctHash) ELSE 0),
          state)

\* ITaskManager::getDecryptResult (reverts if not decrypted)
ITaskManager_getDecryptResult(state, ctHash) ==
    IF ctHash \in state.resolved THEN Reply(Ok(Plaintext(ctHash)), state)
    ELSE Reply(Err("revert"), state)

\* The task manager serving a call made by `caller`.
Serve(state, caller, call) ==
    IF call.to # TaskManagerAddress THEN Reply(Err("revert"), state)
    ELSE CASE call.fn = "allow" ->
                ITaskManager_allow(state, caller, call.args[1], call.args[2])
           [] call.fn = "allowGlobal" ->
                ITaskManager_allowGlobal(state, caller, call.args[1])
           [] call.fn = "isAllowed" ->
                ITaskManager_isAllowed(state, call.args[1], call.args[2])
           [] call.fn = "revoke" ->
                IACL_revoke(state, caller, call.args[1], call.args[2])
           [] call.fn = "createDecryptTask" ->
                ITaskManager_createDecryptTask(state, call.args[1],
                                               call.args[2])
           [] call.fn = "getDecryptResultSafe" ->
                ITaskManager_getDecryptResultSafe(state, call.args[1])
           [] call.fn = "getDecryptResult" ->
                ITaskManager_getDecryptResult(state, call.args[1])

\* What the wrapper's call met, given the task manager's answer.
Met(answer) == [tm_fails |-> ~answer.ok, returns |-> answer.val]

\* An environment in which the wrapper's call is only observed.
Observed == [tm_fails |-> FALSE, returns |-> <<0, FALSE>>]

\* invoked and coprocessor after a call went through the task manager.
Round(op, args, sender, reply, out) ==
    /\ invoked' = [op |-> op, args |-> args, sender |-> sender,
                   env |-> Met(reply.answer), result |-> out.result,
                   calls |-> out.calls]
    /\ coprocessor' = reply.state
    /\ UNCHANGED Contract

AllowThisRound ==
    \E ct \in TaskHandles, sender \in Callers :
        LET call == allow_this(ct, TaskManagerAddress, Observed).calls[1]
            reply == Serve(coprocessor, ShopAddress, call)
        IN  Round("allow_this", <<ct>>, sender, reply,
                  allow_this(ct, TaskManagerAddress, Met(reply.answer)))

AllowSenderRound ==
    \E ct \in TaskHandles, sender \in Callers :
        LET call == allow_sender(ct, TaskManagerAddress, sender,
                                 Observed).calls[1]
            reply == Serve(coprocessor, ShopAddress, call)
        IN  Round("allow_sender", <<ct>>, sender, reply,
                  allow_sender(ct, TaskManagerAddress, sender,
                               Met(reply.answer)))

AllowRound ==
    \E ct \in TaskHandles, account \in Callers, sender \in Callers :
        LET call == allow(ct, account, TaskManagerAddress, Observed).calls[1]
            reply == Serve(coprocessor, ShopAddress, call)
        IN  Round("allow", <<ct, account>>, sender, reply,
                  allow(ct, account, TaskManagerAddress, Met(reply.answer)))

DecryptRound ==
    \E ct \in TaskHandles, sender \in Callers :
        LET call == decrypt(ct, TaskManagerAddress, sender, Observed).calls[1]
            reply == Serve(coprocessor, ShopAddress, call)
        IN  Round("decrypt", <<ct>>, sender, reply,
                  decrypt(ct, TaskManagerAddress, sender, Met(reply.answer)))

GetDecryptResultSafeRound ==
    \E ct \in TaskHandles, sender \in Callers :
        LET call == get_decrypt_result_safe(ct, TaskManagerAddress,
                                            Observed).calls[1]
            reply == Serve(coprocessor, ShopAddress, call)
        IN  Round("get_decrypt_result_safe", <<ct>>, sender, reply,
                  get_decrypt_result_safe(ct, TaskManagerAddress,
                                          Met(reply.answer)))

\* A call an account makes to the task manager itself.
Direct(op, fn, args, caller) ==
    LET call == TaskManagerCall(fn, TaskManagerAddress, args)
        reply == Serve(coprocessor, caller, call)
    IN  Round(op, args, caller, reply, Wrapped(reply.answer, <<call>>))

DirectAllow ==
    \E ctHash \in TaskHandles, account \in Callers, caller \in Callers :
        Direct("tm.allow", "allow", <<ctHash, account>>, caller)

DirectRevoke ==
    \E handle \in TaskHandles, account \in Accounts, caller \in Accounts :
        Direct("tm.revoke", "revoke", <<handle, account>>, caller)

DirectIsAllowed ==
    \E ctHash \in TaskHandles, account \in Accounts, caller \in Callers :
        Direct("tm.isAllowed", "isAllowed", <<ctHash, account>>, caller)

DirectGetDecryptResult ==
    \E ctHash \in TaskHandles, caller \in Callers :
        Direct("tm.getDecryptResult", "getDecryptResult", <<ctHash>>, caller)

\* The coprocessor resolves a pending decryption.
Resolve ==
    \E ctHash \in TaskHandles :
        /\ ctHash \in coprocessor.tickets
        /\ ctHash \notin coprocessor.resolved
        /\ coprocessor' = [coprocessor EXCEPT !.resolved = @ \cup {ctHash}]
        /\ invoked' = [op |-> "resolve", args |-> <<ctHash>>, sender |-> 0,
                       env |-> Observed, result |-> Ok(<<>>), calls |-> <<>>]
        /\ UNCHANGED Contract

TaskNext ==
    \/ AllowThisRound \/ AllowSenderRound \/ AllowRound \/ DecryptRound
    \/ GetDecryptResultSafeRound
    \/ DirectAllow \/ DirectRevoke \/ DirectIsAllowed
    \/ DirectGetDecryptResult \/ Resolve

TaskSpec == Init /\ [][TaskNext]_vars

(***************************************************************************)
(* fhe-stylus/src/fhe.rs: the FHE struct, and the contract of the crate's  *)
(* Quick Start (fhe-stylus/src/lib.rs), which computes through it.  An     *)
(* encrypted value is its 32-byte handle; the contract's balances are kept *)
(* in invoked together with the last call.                                 *)
(***************************************************************************)

\* The input verified and returned as the encrypted value.
FHE_from_external_Verified(input, proof) == Ok(input)

FHE_from_external(input, proof) == Err("OperationFailed")

FHE_add(lhs, rhs) == Err("OperationFailed")

FHE_sub(lhs, rhs) == Err("OperationFailed")

FHE_mul(lhs, rhs) == Err("OperationFailed")

FHE_allow(handle, account) == Err("OperationFailed")

\* What a call of the Quick Start contract leaves: its result, the FHE
\* functions it reached and the balances.  A call that returns Err reverts.
Transferred(result, steps, balances) ==
    [result |-> result, steps |-> steps, balances |-> balances]

\* impl ConfidentialContract { pub fn transfer(..) }
ConfidentialContract_transfer(balances, sender, to, amount, proof) ==
    LET verified_amount == FHE_from_external(amount, proof)
    IN
    IF ~verified_amount.ok
    THEN Transferred(Err("Invalid input"), <<"from_external">>, balances)
    ELSE
    LET sender_balance == balances[sender]
        receiver_balance == balances[to]
        new_sender == FHE_sub(sender_balance, verified_amount.val)
    IN
    IF ~new_sender.ok
    THEN Transferred(Err("Insufficient balance"), <<"from_external", "sub">>,
                     balances)
    ELSE
    LET new_receiver == FHE_add(receiver_balance, verified_amount.val)
    IN
    IF ~new_receiver.ok
    THEN Transferred(Err("Overflow"), <<"from_external", "sub", "add">>,
                     balances)
    ELSE
    LET inserted == [[balances EXCEPT ![sender] = new_sender.val]
                        EXCEPT ![to] = new_receiver.val]
        allowed_sender == FHE_allow(new_sender.val, sender)
        allow_receiver == FHE_allow(new_receiver.val, to)
    IN
    IF ~allowed_sender.ok
    THEN Transferred(Err("Access control failed"),
                     <<"from_external", "sub", "add", "allow">>, balances)
    ELSE IF ~allow_receiver.ok
    THEN Transferred(Err("Access control failed"),
                     <<"from_external", "sub", "add", "allow", "allow">>,
                     balances)
    ELSE Transferred(Ok(0),
                     <<"from_external", "sub", "add", "allow", "allow">>,
                     inserted)

\* Proofs passed with an external input.
Proofs == {<<>>, <<1, 2>>}

\* Handles passed to the FHE functions: those of the coprocessor and the
\* zero handle of an empty balance.
FheHandles == Handles \cup {0}

\* balances: StorageMap<Address, Euint64>, empty after deployment.
Deployed == [a \in Accounts |-> 0]

FheInit ==
    /\ evvm_core = ADDRESS_ZERO
    /\ owner_of_shop = ADDRESS_ZERO
    /\ check_async_nonce = [a \in Clients |-> [n \in Nonces |-> FALSE]]
    /\ paid = [a \in Clients |-> [n \in Nonces |-> 0]]
    /\ last = [op |-> "none", sender |-> 0, client_address |-> 0, nonce |-> 0,
               pre |-> Current, result |-> "Ok", steps |-> <<>>,
               sigres |-> "not run", calls |-> <<>>, callbacks |-> <<>>]
    /\ invoked = [op |-> "deploy", args |-> <<>>, sender |-> 0,
                  pre |-> Deployed, result |-> Ok(0), steps |-> <<>>,
                  balances |-> Deployed]
    /\ coprocessor = Unused

\* One call of an FHE function from a contract: it has no receiver, reads
\* no storage and calls nothing.
FheCall(op, args, result) ==
    /\ invoked' = [op |-> op, args |-> args, sender |-> 0,
                   pre |-> invoked.balances, result |-> result,
                   steps |-> <<op>>, balances |-> invoked.balances]
    /\ UNCHANGED <<Contract, coprocessor>>

FromExternal ==
    \E input \in FheHandles, proof \in Proofs :
        FheCall("from_external", <<input, proof>>,
                FHE_from_external(input, proof))

FheAdd ==
    \E lhs \in FheHandles, rhs \in FheHandles :
        FheCall("add", <<lhs, rhs>>, FHE_add(lhs, rhs))

FheSub ==
    \E lhs \in FheHandles, rhs \in FheHandles :
        FheCall("sub", <<lhs, rhs>>, FHE_sub(lhs, rhs))

FheMul ==
    \E lhs \in FheHandles, rhs \in FheHandles :
        FheCall("mul", <<lhs, rhs>>, FHE_mul(lhs, rhs))

FheAllow ==
    \E handle \in FheHandles, account \in Accounts :
        FheCall("allow", <<handle, account>>, FHE_allow(handle, account))

Transfer ==
    \E sender \in Accounts, to \in Accounts, amount \in FheHandles, proof \in Proofs :
        LET out == ConfidentialContract_transfer(invoked.balances, sender, to,
                                                 amount, proof)
        IN  /\ invoked' = [op |-> "transfer", args |-> <<to, amount, proof>>,
                           sender |-> sender, pre |-> invoked.balances,
                           result |-> out.result, steps |-> out.steps,
                           balances |-> out.balances]
            /\ UNCHANGED <<Contract, coprocessor>>

FheNext ==
    \/ FromExternal \/ FheAdd \/ FheSub \/ FheMul \/ FheAllow \/ Transfer

FheSpec == FheInit /\ [][FheNext]_vars

(***************************************************************************)
(* Vocabulary of the properties.  In every reachable state the storage is  *)
(* what the last call left, and last.pre is what that call found.          *)
(***************************************************************************)

IsOrder == last.op = "order_coffee"

IsWithdraw == last.op \in {"withdraw_rewards", "withdraw_funds"}

\* The pay calls the last call made to the ledger.
Pays == SelectSeq(last.calls, LAMBDA c : c.fn = "pay")

PaySucceeded == Pays # <<>> /\ Pays[Len(Pays)].ok

PayFailed == Pays # <<>> /\ ~Pays[Len(Pays)].ok

\* Whether the order's (client_address, nonce) was marked when the call began.
UsedBefore ==
    IsOrder /\ last.pre.check_async_nonce[last.client_address][last.nonce]

UsedNow == IsOrder /\ is_this_nonce_used(last.client_address, last.nonce)

\* What signature_verification returns when it does not return Ok(true).
SigFailures == {"Ok(false)", "InvalidLength", "InvalidV", "RecoveryFailed"}

OrderSteps == <<"evvm_id", "signature", "nonce_check", "pay", "nonce_mark">>

MarkCount == Cardinality({i \in DOMAIN last.steps : last.steps[i] = "nonce_mark"})

StorageUnchanged == Current = last.pre

(***************************************************************************)
(* C1  Once (A, N) is marked used, is_this_nonce_used(A, N) is true in     *)
(* every later state, whatever call comes next: no step of the contract    *)
(* takes an entry of the nonce registry from used back to unused.          *)
(***************************************************************************)
C1_NonceNeverReset ==
    [][\A a \in Clients, n \in Nonces :
          is_this_nonce_used(a, n) => is_this_nonce_used(a, n)']_vars

\* A nonce marked by an earlier order is still marked after an initialize.
C1_Witness ==
    /\ last.op = "initialize"
    /\ \E a \in Clients, n \in Nonces :
          last.pre.check_async_nonce[a][n] /\ is_this_nonce_used(a, n)

(***************************************************************************)
(* C2  An order_coffee call whose signature verifies and whose             *)
(* (client_address, nonce) is already marked fails with NonceAlreadyUsed,  *)
(* makes no pay call and changes no state.                                 *)
(***************************************************************************)
C2_ReplayRejectedBeforePay ==
    (IsOrder /\ last.sigres = "Ok(true)" /\ UsedBefore)
        => /\ last.result = "NonceAlreadyUsed"
           /\ Pays = <<>>
           /\ StorageUnchanged

C2_Witness ==
    /\ IsOrder /\ last.sigres = "Ok(true)" /\ UsedBefore
    /\ last.result = "NonceAlreadyUsed"
    /\ paid[last.client_address][last.nonce] = 1

(***************************************************************************)
(* C3  The nonce is marked only after pay returned success: when pay       *)
(* fails the call fails with PaymentFailed and (client_address, nonce) is  *)
(* still unused, so the same signed order is not refused as a replay.      *)
(***************************************************************************)
C3_PayFailureLeavesNonceUnmarked ==
    IsOrder =>
        /\ PayFailed => (last.result = "PaymentFailed" /\ ~UsedNow)
        /\ (UsedNow /\ ~UsedBefore) => PaySucceeded
        /\ MarkCount > 0 =>
              (PaySucceeded /\ last.steps[Len(last.steps)] = "nonce_mark")

C3_Witness ==
    /\ IsOrder /\ PayFailed /\ last.result = "PaymentFailed"
    /\ last.sigres = "Ok(true)" /\ ~UsedNow

(***************************************************************************)
(* C4  The steps of an order_coffee call run in the order signature        *)
(* verification, nonce check, pay, nonce mark, each only if the earlier    *)
(* ones succeeded: pay is called only for a request that passed the        *)
(* signature check and the nonce check, and a request whose signature      *)
(* fails verification and whose nonce is already used fails with           *)
(* InvalidSignature, not NonceAlreadyUsed.                                 *)
(***************************************************************************)
C4_StepOrder ==
    IsOrder =>
        /\ last.steps = SubSeq(OrderSteps, 1, Len(last.steps))
        /\ Len(last.steps) >= 3 => last.sigres = "Ok(true)"
        /\ Len(last.steps) >= 4 => ~UsedBefore
        /\ Len(last.steps) >= 5 => PaySucceeded
        /\ Pays # <<>> => (last.sigres = "Ok(true)" /\ ~UsedBefore
                            /\ Len(last.steps) >= 4)
        /\ last.sigres \in SigFailures => last.result = "InvalidSignature"
        /\ last.sigres # "Ok(true)" => last.result # "NonceAlreadyUsed"

\* A request with a signature that fails verification and a used nonce.
C4_Witness ==
    /\ IsOrder /\ UsedBefore /\ last.sigres \in SigFailures
    /\ last.result = "InvalidSignature"

(***************************************************************************)
(* C5  No order_coffee execution runs between another one's nonce check    *)
(* and nonce mark: a call the ledger makes back into the contract during   *)
(* pay reverts, and each (client, nonce) has at most one successful pay.   *)
(***************************************************************************)
C5_SettledAtMostOnce ==
    /\ \A a \in Clients, n \in Nonces : paid[a][n] <= 1
    /\ \A i \in DOMAIN last.callbacks : last.callbacks[i] = "reverted"

\* The ledger tried to re-enter with the same order while it was paid.
C5_Witness ==
    /\ IsOrder /\ last.callbacks = <<"reverted">> /\ last.result = "Ok"
    /\ paid[last.client_address][last.nonce] = 1

(***************************************************************************)
(* C6  When signature verification fails for any reason (length, v,        *)
(* recovery failure, signer other than client_address) the call fails      *)
(* with InvalidSignature, makes no pay call and leaves the nonce registry  *)
(* unchanged.                                                              *)
(***************************************************************************)
C6_SignatureFailureNoEffect ==
    (IsOrder /\ last.sigres \in SigFailures)
        => /\ last.result = "InvalidSignature"
           /\ Pays = <<>>
           /\ check_async_nonce = last.pre.check_async_nonce

\* A recovered signer different from client_address.
C6_Witness ==
    /\ IsOrder /\ last.sigres = "Ok(false)" /\ last.result = "InvalidSignature"

(***************************************************************************)
(* C7  order_coffee is all-or-nothing: it ends with Ok, the payment        *)
(* settled and (client_address, nonce) marked, or it ends with an error,   *)
(* the nonce registry, owner and ledger address as before and no           *)
(* successful pay.                                                         *)
(***************************************************************************)
C7_AllOrNothing ==
    IsOrder =>
        \/ /\ last.result = "Ok" /\ PaySucceeded /\ UsedNow
           /\ paid[last.client_address][last.nonce]
                = last.pre.paid[last.client_address][last.nonce] + 1
        \/ /\ last.result # "Ok" /\ ~PaySucceeded /\ StorageUnchanged

\* A call that got as far as pay and failed there, with the registry not empty.
C7_Witness ==
    /\ IsOrder /\ last.result # "Ok" /\ Len(last.steps) = 4
    /\ \E a \in Clients, n \in Nonces : is_this_nonce_used(a, n)

(***************************************************************************)
(* C8  Once pay has returned success the call cannot fail: it marks        *)
(* (client_address, nonce) exactly once and returns Ok; no failed call     *)
(* marks a nonce.                                                          *)
(***************************************************************************)
C8_MarkAfterPayCannotFail ==
    IsOrder =>
        /\ PaySucceeded =>
              /\ last.result = "Ok" /\ MarkCount = 1
              /\ ~UsedBefore /\ UsedNow
              /\ check_async_nonce =
                    [last.pre.check_async_nonce
                       EXCEPT ![last.client_address][last.nonce] = TRUE]
        /\ last.result # "Ok" =>
              /\ MarkCount = 0
              /\ check_async_nonce = last.pre.check_async_nonce

C8_Witness ==
    /\ IsOrder /\ PaySucceeded /\ last.result = "Ok" /\ MarkCount = 1

(***************************************************************************)
(* C9  withdraw_rewards and withdraw_funds called by a sender other than   *)
(* the stored owner fail with Unauthorized, make no pay call and change    *)
(* no state; pay is reached only when the sender is the stored owner.      *)
(***************************************************************************)
C9_WithdrawOwnerOnly ==
    IsWithdraw =>
        /\ last.sender # last.pre.owner_of_shop =>
              /\ last.result = "Unauthorized"
              /\ last.calls = <<>>
              /\ StorageUnchanged
        /\ Pays # <<>> => last.sender = last.pre.owner_of_shop

C9_Witness ==
    /\ last.op = "withdraw_rewards" /\ last.sender # last.pre.owner_of_shop
    /\ last.pre.owner_of_shop \in Owners /\ last.result = "Unauthorized"

OrderSeen == IsOrder /\ invoked.op = "order_coffee"

\* The signature client_address made for the order as requested, at price p.
SignatureFor(req, id, p) ==
    SigBytes(CHOOSE g \in Signatures :
                /\ g.key = req.client_address
                /\ g.order = [evvm_id |-> id, coffee_type |-> req.coffee_type,
                              quantity |-> req.quantity, total_price |-> p,
                              nonce |-> req.nonce])

\* The request with an other price, then also with the signature for it.
WithPrice(req, p) == [req EXCEPT !.total_price_plaintext = p]

Resigned(req, id, p) ==
    [WithPrice(req, p) EXCEPT !.signature = SignatureFor(req, id, p)]

WithFee(req, f) == [req EXCEPT !.priority_fee_plaintext = f]

\* The order as it would have run from the same storage on request r.
Rerun(r) == order_coffee(last.pre, r, invoked.env)

(***************************************************************************)
(* C11 (as stated)  total_price_plaintext and priority_fee_plaintext both  *)
(* enter the message whose signature order_coffee verifies, and neither is *)
(* used anywhere else: an accepted order is no longer accepted when only   *)
(* its price or only its fee is changed, and what is passed to pay does    *)
(* not depend on either.                                                   *)
(***************************************************************************)
C11_PlaintextOnlyInSignedMessage ==
    (OrderSeen /\ last.result = "Ok") =>
        LET req == invoked.req
            id == EvvmIdOf(last.pre.evvm_core)
        IN  /\ \A p \in SignedPrices \ {req.total_price_plaintext} :
                  /\ Rerun(WithPrice(req, p)).sigres # "Ok(true)"
                  /\ Rerun(Resigned(req, id, p)).calls = last.calls
            /\ \A f \in OfferedFees \ {req.priority_fee_plaintext} :
                  /\ Rerun(WithFee(req, f)).sigres # "Ok(true)"
                  /\ Rerun(WithFee(req, f)).calls = last.calls

(***************************************************************************)
(* C11 (amended)  total_price_plaintext enters the message whose signature *)
(* is verified and is also passed to pay, as amountPlaintext;              *)
(* priority_fee_plaintext does not enter the signed message and is used    *)
(* only as pay's priorityFeePlaintext argument.  Nothing else of the call  *)
(* depends on either.                                                      *)
(***************************************************************************)
C11_PlaintextUse ==
    (OrderSeen /\ last.result = "Ok") =>
        LET req == invoked.req
            id == EvvmIdOf(last.pre.evvm_core)
            args == Pays[1].args
        IN  /\ Len(Pays) = 1
            /\ args[5] = req.total_price_plaintext
            /\ args[10] = req.priority_fee_plaintext
            /\ \A p \in SignedPrices \ {req.total_price_plaintext} :
                  /\ Rerun(WithPrice(req, p)).sigres = "Ok(false)"
                  /\ Rerun(Resigned(req, id, p)).result = "Ok"
                  /\ Rerun(Resigned(req, id, p)).calls[2].args
                        = [args EXCEPT ![5] = p]
            /\ \A f \in OfferedFees \ {req.priority_fee_plaintext} :
                  /\ Rerun(WithFee(req, f)).sigres = "Ok(true)"
                  /\ Rerun(WithFee(req, f)).result = "Ok"
                  /\ Rerun(WithFee(req, f)).st = Current
                  /\ Rerun(WithFee(req, f)).calls[2].args
                        = [args EXCEPT ![10] = f]

\* An accepted order at the second price with a fee the client never signed.
C11_Witness ==
    /\ OrderSeen /\ last.result = "Ok"
    /\ invoked.req.total_price_plaintext = 16
    /\ invoked.req.priority_fee_plaintext = 1

(***************************************************************************)
(* Vocabulary of the properties about the signature library (SigSpec).     *)
(* What a signature is a signature of is read from the clients' signing    *)
(* table, not from the library's own functions.                           *)
(***************************************************************************)

\* The function op has been applied and invoked.result is what it returned.
Called(op) == invoked.op = op /\ invoked.result.err # "pending"

\* The result is Ok(true).
Accepted(res) == res.ok /\ res.val

CanonicalMessage(evvm_id, function_name, inputs) ==
    evvm_id \o <<",">> \o function_name \o <<",">> \o inputs

InvokedMessage ==
    CanonicalMessage(invoked.evvm_id, invoked.function_name, invoked.inputs)

ValidV == {0, 1, 27, 28}

WellFormed(sig) == Len(sig) = 65 /\ sig[65] \in ValidV

\* The signatures the clients made over message m that sig spells out.
SignedBy(m, sig) ==
    {g \in Signatures :
        /\ g.digest = PersonalSignDigest(m)
        /\ sig \in {SigBytes(g), SigBytesLowV(g)}}

\* sig is the signature of signer's key over exactly m.
Genuine(m, sig, signer) == \E g \in SignedBy(m, sig) : g.key = signer

\* Standard recovery has a result for sig.
Recoverable(sig) ==
    /\ WellFormed(sig)
    /\ SubSeq(sig, 1, 32) # ZeroWord /\ SubSeq(sig, 33, 64) # ZeroWord

\* The signer standard recovery yields for a recoverable sig over m.
RecoversTo(m, sig) ==
    IF SignedBy(m, sig) # {} THEN (CHOOSE g \in SignedBy(m, sig) : TRUE).key
    ELSE StrangerAddress

SignatureErrors == {"InvalidLength", "InvalidV", "RecoveryFailed"}

(***************************************************************************)
(* C12  signature_verification returns Ok(true) exactly when the signer    *)
(* recovered from the EIP-191 digest of "<evvm_id>,<function_name>,        *)
(* <inputs>" is expected_signer: for a client's address, exactly when the  *)
(* signature is that client's over that very message.  A message with one  *)
(* byte changed, a v outside {0,1,27,28} and a length other than 65 give   *)
(* Ok(false) or InvalidLength, InvalidV or RecoveryFailed, not Ok(true).   *)
(***************************************************************************)
C12_VerificationIffSigner ==
    Called("signature_verification") =>
        LET sig == invoked.signature
            res == invoked.result
            e == invoked.expected_signer
        IN  /\ Accepted(res) <=>
                  /\ ~invoked.call_fails /\ Recoverable(sig)
                  /\ RecoversTo(InvokedMessage, sig) = e
            /\ e \in Clients =>
                  (Accepted(res) <=>
                      (Genuine(InvokedMessage, sig, e) /\ ~invoked.call_fails))
            /\ Len(sig) # 65 => (~res.ok /\ res.err = "InvalidLength")
            /\ (Len(sig) = 65 /\ sig[65] \notin ValidV) =>
                  (~res.ok /\ res.err = "InvalidV")
            /\ ~res.ok => res.err \in SignatureErrors
            /\ res.ok => res.val \in BOOLEAN

\* A client's signature accepted for the client, written with v 0 or 1.
C12_Witness ==
    /\ Called("signature_verification") /\ Accepted(invoked.result)
    /\ invoked.expected_signer \in Clients
    /\ invoked.signature[65] \in {0, 1}

(***************************************************************************)
(* C13 (as stated)  signature_verification joins evvm_id, function_name    *)
(* and inputs with commas in that order, and a signature that verifies for *)
(* one (evvm_id, function_name, inputs) triple does not verify for any     *)
(* different triple.                                                       *)
(***************************************************************************)
C13_OneTriplePerSignature ==
    (Called("signature_verification") /\ invoked.expected_signer \in Clients)
      => /\ Accepted(invoked.result) <=>
               /\ Genuine(InvokedMessage, invoked.signature,
                          invoked.expected_signer)
               /\ ~invoked.call_fails
         /\ Accepted(invoked.result) =>
               \A tr \in VerificationTriples :
                  tr # Triple(invoked.evvm_id, invoked.function_name,
                              invoked.inputs)
                    => ~Accepted(signature_verification(tr.evvm_id,
                             tr.function_name, tr.inputs, invoked.signature,
                             invoked.expected_signer, invoked.call_fails))

(***************************************************************************)
(* C13 (amended)  signature_verification joins evvm_id, function_name and  *)
(* inputs with commas in that order, and a signature that verifies for one *)
(* triple does not verify for any triple whose joined message is           *)
(* different; it verifies for every triple that joins to the same message, *)
(* wherever the commas between the three arguments fall.                   *)
(***************************************************************************)
C13_OneMessagePerSignature ==
    (Called("signature_verification") /\ invoked.expected_signer \in Clients)
      => /\ Accepted(invoked.result) <=>
               /\ Genuine(InvokedMessage, invoked.signature,
                          invoked.expected_signer)
               /\ ~invoked.call_fails
         /\ \A tr \in VerificationTriples :
               LET other == signature_verification(tr.evvm_id,
                                tr.function_name, tr.inputs,
                                invoked.signature, invoked.expected_signer,
                                invoked.call_fails)
                   same == CanonicalMessage(tr.evvm_id, tr.function_name,
                                            tr.inputs) = InvokedMessage
               IN  /\ same => other = invoked.result
                   /\ (Accepted(invoked.result) /\ ~same) => ~Accepted(other)

\* Accepted with the first input field passed inside function_name.
C13_Witness ==
    /\ Called("signature_verification") /\ Accepted(invoked.result)
    /\ invoked.function_name = orderCoffee \o <<",", "L">>

(***************************************************************************)
(* C14  order_coffee verifies the signature over exactly                   *)
(* "<evvmID>,orderCoffee,<coffeeType>,<quantity>,<totalPrice>,<nonce>",    *)
(* with the id the ledger reports and the numbers in decimal, against      *)
(* client_address: verification returns true exactly when the signature is *)
(* client_address's over that string, and an accepted order with only its  *)
(* nonce changed gets false.                                               *)
(***************************************************************************)
C14_OrderMessage ==
    (OrderSeen /\ last.sigres # "not run") =>
        LET req == invoked.req
            o == [evvm_id |-> EvvmIdOf(last.pre.evvm_core),
                  coffee_type |-> req.coffee_type, quantity |-> req.quantity,
                  total_price |-> req.total_price_plaintext,
                  nonce |-> req.nonce]
        IN  /\ last.sigres = "Ok(true)" <=>
                  Genuine(SignedMessage(o), req.signature, req.client_address)
            /\ last.sigres = "Ok(true)" =>
                  \A n \in Nonces \ {req.nonce} :
                      Rerun([req EXCEPT !.nonce = n]).sigres = "Ok(false)"

\* An order at the two-digit price, accepted.
C14_Witness ==
    /\ OrderSeen /\ last.sigres = "Ok(true)"
    /\ SignedMessage([evvm_id |-> EvvmIdOf(last.pre.evvm_core),
                      coffee_type |-> invoked.req.coffee_type,
                      quantity |-> invoked.req.quantity,
                      total_price |-> invoked.req.total_price_plaintext,
                      nonce |-> invoked.req.nonce])
         = <<"1", ",">> \o orderCoffee
              \o <<",", "L", ",", "2", ",", "1", "6", ",", "8">>

(***************************************************************************)
(* C15  split_signature returns InvalidLength exactly when its input is    *)
(* not 65 bytes long, whatever the bytes are; a 65-byte input gives Ok or  *)
(* InvalidV.                                                               *)
(***************************************************************************)
C15_InvalidLengthIffNot65 ==
    Called("split_signature") =>
        LET sig == invoked.signature
            res == invoked.result
        IN  /\ (~res.ok /\ res.err = "InvalidLength") <=> Len(sig) # 65
            /\ Len(sig) = 65 => (res.ok \/ res.err = "InvalidV")

\* 66 bytes whose 65th and last bytes are no valid v: still InvalidLength.
C15_Witness ==
    /\ Called("split_signature") /\ Len(invoked.signature) = 66
    /\ invoked.signature[66] = 30
    /\ invoked.result.err = "InvalidLength"

(***************************************************************************)
(* C16  For a 65-byte input split_signature succeeds exactly when the last *)
(* byte is 0, 1, 27 or 28: 0 and 27 give v = 27, 1 and 28 give v = 28,     *)
(* every other byte value gives InvalidV; r is the first 32 bytes, s the   *)
(* next 32, and the v returned is 27 or 28.                                *)
(***************************************************************************)
C16_VNormalised ==
    (Called("split_signature") /\ Len(invoked.signature) = 65) =>
        LET sig == invoked.signature
            res == invoked.result
        IN  /\ res.ok <=> sig[65] \in ValidV
            /\ sig[65] \in {0, 27} => (res.ok /\ res.val.v = 27)
            /\ sig[65] \in {1, 28} => (res.ok /\ res.val.v = 28)
            /\ sig[65] \in (0..255) \ ValidV =>
                  (~res.ok /\ res.err = "InvalidV")
            /\ res.ok => /\ res.val.v \in {27, 28}
                         /\ res.val.r = SubSeq(sig, 1, 32)
                         /\ res.val.s = SubSeq(sig, 33, 64)

C16_Witness ==
    /\ Called("split_signature") /\ Len(invoked.signature) = 65
    /\ invoked.signature[65] = 1
    /\ invoked.result.ok /\ invoked.result.val.v = 28

(***************************************************************************)
(* C17  A signature with v = 0 gives the same recover_signer result and    *)
(* the same signature_verification result as the signature with the same   *)
(* r and s and v = 27, for every message and expected signer; likewise     *)
(* v = 1 and v = 28.                                                       *)
(***************************************************************************)
C17_LowVSameAsHighV ==
    LET sig == invoked.signature
        high == [sig EXCEPT ![65] = @ + 27]
    IN  /\ (Called("recover_signer") /\ Len(sig) = 65 /\ sig[65] \in {0, 1})
              => invoked.result
                   = recover_signer(invoked.message, high, invoked.call_fails)
        /\ (Called("signature_verification") /\ Len(sig) = 65
              /\ sig[65] \in {0, 1})
              => invoked.result
                   = signature_verification(invoked.evvm_id,
                         invoked.function_name, invoked.inputs, high,
                         invoked.expected_signer, invoked.call_fails)

\* A client recovered from a signature written with v = 0.
C17_Witness ==
    /\ Called("recover_signer") /\ Len(invoked.signature) = 65
    /\ invoked.signature[65] = 0
    /\ invoked.result.ok /\ invoked.result.val \in Clients

(***************************************************************************)
(* Vocabulary of the properties about the CoFHE wrappers (CofheSpec).      *)
(***************************************************************************)

BinaryWrappers == {"add", "sub", "mul", "eq", "and", "or"}

InputWrappers == {"as_euint8", "as_euint32", "as_euint64", "as_euint256"}

TaskWrappers == BinaryWrappers \cup {"select", "as_ebool"}

\* The one call the wrapper made to the task manager.
TaskCall == invoked.calls[1]

\* The FunctionId variant each wrapper is named after.
NamedOpcode ==
    [add |-> "Add", sub |-> "Sub", mul |-> "Mul", eq |-> "Eq", and |-> "And",
     or |-> "Or", select |-> "Select", as_ebool |-> "TrivialEncrypt"]

\* The type of the handle each wrapper declares as its result.
DeclaredType ==
    [add |-> "EUINT64_TFHE", sub |-> "EUINT64_TFHE", mul |-> "EUINT64_TFHE",
     eq |-> "EBOOL_TFHE", and |-> "EBOOL_TFHE", or |-> "EBOOL_TFHE",
     as_ebool |-> "EBOOL_TFHE", select |-> "EUINT32_TFHE"]

\* The tag of each input wrapper's own width.
WidthTag ==
    [as_euint8 |-> Utils.EUINT8_TFHE, as_euint32 |-> Utils.EUINT32_TFHE,
     as_euint64 |-> Utils.EUINT64_TFHE, as_euint256 |-> Utils.EUINT256_TFHE]

\* The coprocessor attests the input passed to the input wrapper, for the
\* wrapper's type and the caller.
Attested ==
    [ct_hash |-> invoked.args[1].ct_hash,
     security_zone |-> invoked.args[1].security_zone,
     utype |-> WidthTag[invoked.op],
     signature |-> invoked.args[1].signature,
     sender |-> invoked.sender] \in AttestedInputs

(***************************************************************************)
(* C18  Each task-submission wrapper passes its operands to createTask in  *)
(* the order of its parameters: add, sub, mul, eq, and, or send            *)
(* [lhs, rhs], select sends [condition, if_true, if_false]; the opcode     *)
(* sent is the FunctionId variant the wrapper is named after.              *)
(***************************************************************************)
C18_OperandOrder ==
    invoked.op \in BinaryWrappers \cup {"select"} =>
        /\ Len(invoked.calls) = 1
        /\ TaskCall.fn = "createTask"
        /\ TaskCall.args[2] = FunctionId(NamedOpcode[invoked.op])
        /\ TaskCall.args[3] = invoked.args
        /\ TaskCall.args[4] = <<>>
        /\ invoked.op = "sub" =>
              (TaskCall.args[3][1] = invoked.args[1]
                 /\ TaskCall.args[3][2] = invoked.args[2]
                 /\ TaskCall.args[2] = 7)
        /\ invoked.op = "select" => Len(TaskCall.args[3]) = 3

\* A subtraction of two different handles.
C18_Witness ==
    /\ invoked.op = "sub" /\ invoked.args = <<101, 102>>
    /\ TaskCall.args[3] = <<101, 102>>

(***************************************************************************)
(* C19  Each task-submission wrapper submits the returnType of the handle  *)
(* type it declares: add, sub and mul EUINT64_TFHE, eq, and, or and        *)
(* as_ebool EBOOL_TFHE, select EUINT32_TFHE; every createTask call pairs   *)
(* the wrapper's opcode with that returnType.                              *)
(***************************************************************************)
C19_ReturnTypes ==
    invoked.op \in TaskWrappers =>
        /\ Len(invoked.calls) = 1
        /\ TaskCall.fn = "createTask"
        /\ TaskCall.args[1] = Utils[DeclaredType[invoked.op]]
        /\ invoked.op \in {"add", "sub", "mul"} => TaskCall.args[1] = 5
        /\ invoked.op \in {"eq", "and", "or", "as_ebool"} =>
              TaskCall.args[1] = 0
        /\ invoked.op = "select" => TaskCall.args[1] = 4
        /\ <<TaskCall.args[2], TaskCall.args[1]>> \in
              {<<FunctionId(NamedOpcode[w]), Utils[DeclaredType[w]]>> :
                  w \in TaskWrappers}

\* A comparison of two 256-bit handles, submitted as a boolean.
C19_Witness ==
    /\ invoked.op = "eq" /\ invoked.result.ok
    /\ TaskCall.args[1] = Utils.EBOOL_TFHE /\ TaskCall.args[2] = 24

(***************************************************************************)
(* C20 (as stated)  as_euint8, as_euint32, as_euint64 and as_euint256      *)
(* fail with InvalidInput when the coprocessor does not accept the proof   *)
(* for the ciphertext hash, the wrapper's type and the caller, and return  *)
(* a handle only when verification succeeded.                              *)
(***************************************************************************)
C20_RejectsWithInvalidInput ==
    invoked.op \in InputWrappers =>
        /\ ~Attested => (~invoked.result.ok /\ invoked.result.err = "InvalidInput")
        /\ invoked.result.ok => Attested

(***************************************************************************)
(* C20 (amended)  The four input wrappers fail when the coprocessor does   *)
(* not accept the proof for the ciphertext hash, the wrapper's type and    *)
(* the caller, with TaskManagerCallFailed, the error of every failed call  *)
(* to the task manager; they return a handle, the one verifyInput          *)
(* returned, only when verification succeeded.                             *)
(***************************************************************************)
C20_RejectsUnverifiedInput ==
    invoked.op \in InputWrappers =>
        /\ Len(invoked.calls) = 1
        /\ TaskCall.fn = "verifyInput"
        /\ TaskCall.args = <<invoked.args[1].ct_hash,
                             invoked.args[1].security_zone,
                             WidthTag[invoked.op], invoked.args[1].signature,
                             invoked.sender>>
        /\ ~Attested =>
              (~invoked.result.ok
                 /\ invoked.result.err = "TaskManagerCallFailed")
        /\ invoked.result.ok =>
              (Attested /\ ~invoked.env.tm_fails
                 /\ invoked.result.val = invoked.env.returns)
        /\ (Attested /\ ~invoked.env.tm_fails) => invoked.result.ok

\* A proof the coprocessor does not accept for this caller, refused.
C20_Witness ==
    /\ invoked.op = "as_euint64" /\ invoked.args[1].ct_hash = 75
    /\ invoked.args[1].signature = <<1, 2>> /\ invoked.sender = 6
    /\ ~invoked.env.tm_fails /\ ~invoked.result.ok

\* The wrappers that grant access to a handle.
AccessWrappers == {"allow_this", "allow_sender", "allow"}

\* Every wrapper of impl CoFHE.
CoFHEWrappers ==
    InputWrappers \cup TaskWrappers \cup AccessWrappers
        \cup {"decrypt", "get_decrypt_result_safe"}

(***************************************************************************)
(* C21  Every CoFHE wrapper makes exactly one call, to the task manager,   *)
(* and passes the handles it was given unchanged; when the call succeeds   *)
(* the wrapper returns what the coprocessor returned, unchanged, and when  *)
(* the call fails, whatever the cause, or the wrapper fails at all, the    *)
(* error is TaskManagerCallFailed.                                         *)
(***************************************************************************)
C21_OneCallGenericError ==
    invoked.op \in CoFHEWrappers =>
        /\ Len(invoked.calls) = 1
        /\ TaskCall.to = TaskManagerAddress
        /\ invoked.result.ok =>
              (~invoked.env.tm_fails
                 /\ invoked.result.val = invoked.env.returns)
        /\ invoked.env.tm_fails => ~invoked.result.ok
        /\ ~invoked.result.ok => invoked.result.err = "TaskManagerCallFailed"
        /\ invoked.op \in BinaryWrappers \cup {"select"} =>
              TaskCall.args[3] = invoked.args
        /\ invoked.op \in AccessWrappers
                            \cup {"decrypt", "get_decrypt_result_safe"} =>
              TaskCall.args[1] = invoked.args[1]

\* A poll whose call to the task manager failed.
C21_Witness ==
    /\ invoked.op = "get_decrypt_result_safe" /\ invoked.env.tm_fails
    /\ ~invoked.result.ok /\ invoked.result.err = "TaskManagerCallFailed"
    /\ Len(invoked.calls) = 1

\* The tag of each handle type.
TagOf ==
    [Euint8 |-> Utils.EUINT8_TFHE, Euint32 |-> Utils.EUINT32_TFHE,
     Euint64 |-> Utils.EUINT64_TFHE, Euint256 |-> Utils.EUINT256_TFHE,
     Ebool |-> Utils.EBOOL_TFHE]

\* The operands of the call, as a set.
OperandHandles == {invoked.args[i] : i \in DOMAIN invoked.args}

(***************************************************************************)
(* C22  as_euintN sends verifyInput the tag of its own width (2, 4, 5, 8   *)
(* for 8, 32, 64, 256 bits) whatever utype the input carries; a            *)
(* task-submission wrapper sends createTask the tag of the handle type it  *)
(* returns, which for a handle of N bits is the tag as_euintN sends; and a *)
(* wrapper, none of which sends Cast, returns the handle the coprocessor   *)
(* created for that tag, never one of its operands under another type.     *)
(***************************************************************************)
C22_TagFixedAtVerification ==
    /\ invoked.op \in InputWrappers =>
          /\ TaskCall.fn = "verifyInput"
          /\ TaskCall.args[3] = WidthTag[invoked.op]
          /\ TaskCall.args[3] = TagOf[WrapperTypes[invoked.op].result]
          /\ TaskCall.args[3] \in {2, 4, 5, 8}
    /\ invoked.op \in TaskWrappers =>
          /\ TaskCall.fn = "createTask"
          /\ TaskCall.args[1] = TagOf[WrapperTypes[invoked.op].result]
          /\ \A w \in InputWrappers :
                WrapperTypes[w].result = WrapperTypes[invoked.op].result =>
                    TaskCall.args[1] = WidthTag[w]
          /\ TaskCall.args[2] # FunctionId("Cast")
          /\ invoked.result.ok => invoked.result.val = invoked.env.returns
          /\ (invoked.result.ok /\ invoked.op # "as_ebool") =>
                invoked.result.val \notin OperandHandles

\* A 32-bit input that carries the 64-bit tag in its utype field, verified
\* with the 32-bit tag.
C22_Witness ==
    /\ invoked.op = "as_euint32" /\ invoked.args[1].utype = Utils.EUINT64_TFHE
    /\ TaskCall.args[3] = Utils.EUINT32_TFHE /\ invoked.result.ok

\* Each tag table of the code, listed in the order bool, u8, u16, u32, u64,
\* u128, u256, address.
UtilsTags ==
    <<Utils.EBOOL_TFHE, Utils.EUINT8_TFHE, Utils.EUINT16_TFHE,
      Utils.EUINT32_TFHE, Utils.EUINT64_TFHE, Utils.EUINT128_TFHE,
      Utils.EUINT256_TFHE, Utils.EADDRESS_TFHE>>

TypeTags ==
    <<EBOOL_TYPE, EUINT8_TYPE, EUINT16_TYPE, EUINT32_TYPE, EUINT64_TYPE,
      EUINT128_TYPE, EUINT256_TYPE, EADDRESS_TYPE>>

TagTables == {UtilsTags, TypeTags}

PairwiseDistinct(t) == \A i, j \in DOMAIN t : i # j => t[i] # t[j]

Ascending(t) == \A i \in 1..(Len(t) - 1) : t[i] < t[i + 1]

\* The tag the wrapper sent: the logical type of verifyInput, the
\* returnType of createTask.
SentTag ==
    IF invoked.op \in InputWrappers THEN TaskCall.args[3]
    ELSE TaskCall.args[1]

(***************************************************************************)
(* C23 (as stated)  In every tag table of the code the eight tags are      *)
(* pairwise distinct, bool has tag 0, and the tags follow the order bool,  *)
(* u8, u16, u32, u64, u128, u256, address.                                 *)
(***************************************************************************)
C23_TagsInOrder ==
    /\ \A t \in TagTables :
          /\ Len(t) = 8
          /\ PairwiseDistinct(t)
          /\ t[1] = 0
          /\ Ascending(t)
    /\ invoked.op \in InputWrappers \cup TaskWrappers =>
          \E t \in TagTables : \E i \in DOMAIN t : SentTag = t[i]

(***************************************************************************)
(* C23 (amended)  In every tag table of the code the eight tags are        *)
(* pairwise distinct.  In Utils, the table of the task manager, bool has   *)
(* tag 0 and the tags follow the order bool, u8, u16, u32, u64, u128,      *)
(* address, u256 with the values 0, 2, 3, 4, 5, 6, 7, 8; in the            *)
(* EUINT8_TYPE..EADDRESS_TYPE table they follow the order u8, u16, u32,    *)
(* u64, u128, u256, bool, address with the values 0..7.  Every tag a       *)
(* wrapper sends is a tag of Utils.                                        *)
(***************************************************************************)
C23_TagTables ==
    /\ \A t \in TagTables : Len(t) = 8 /\ PairwiseDistinct(t)
    /\ UtilsTags[1] = 0
    /\ Ascending(<<UtilsTags[1], UtilsTags[2], UtilsTags[3], UtilsTags[4],
                   UtilsTags[5], UtilsTags[6], UtilsTags[8], UtilsTags[7]>>)
    /\ UtilsTags = <<0, 2, 3, 4, 5, 6, 8, 7>>
    /\ Ascending(<<TypeTags[2], TypeTags[3], TypeTags[4], TypeTags[5],
                   TypeTags[6], TypeTags[7], TypeTags[1], TypeTags[8]>>)
    /\ TypeTags = <<6, 0, 1, 2, 3, 4, 5, 7>>
    /\ invoked.op \in InputWrappers \cup TaskWrappers =>
          \E i \in DOMAIN UtilsTags : SentTag = UtilsTags[i]

\* A 256-bit input verified with the tag 8, above the address tag 7.
C23_Witness ==
    /\ invoked.op = "as_euint256" /\ invoked.result.ok
    /\ SentTag = UtilsTags[7] /\ UtilsTags[7] > UtilsTags[8]

\* The variants of FunctionId that name no operation.
ReservedVariants == {"_0", "_1", "_5", "_31"}

VariantName(i) == FunctionIdVariants[i][1]

Discriminant(i) == FunctionIdVariants[i][2]

(***************************************************************************)
(* C24  FunctionId has 32 variants with pairwise distinct names and        *)
(* pairwise distinct discriminants, which are exactly 0..31; the slots 0,  *)
(* 1, 5 and 31 are the reserved variants _0, _1, _5, _31 and no other      *)
(* slot is; every opcode a wrapper sends to createTask is the discriminant *)
(* of a variant that is not reserved.                                      *)
(***************************************************************************)
C24_ClosedOpcodeSpace ==
    /\ Len(FunctionIdVariants) = 32
    /\ \A i, j \in DOMAIN FunctionIdVariants :
          i # j => (VariantName(i) # VariantName(j)
                      /\ Discriminant(i) # Discriminant(j))
    /\ {Discriminant(i) : i \in DOMAIN FunctionIdVariants} = 0..31
    /\ {Discriminant(i) : i \in {k \in DOMAIN FunctionIdVariants :
                                     VariantName(k) \in ReservedVariants}}
          = {0, 1, 5, 31}
    /\ invoked.op \in TaskWrappers =>
          /\ TaskCall.fn = "createTask"
          /\ TaskCall.args[2] \in 0..31
          /\ \E i \in DOMAIN FunctionIdVariants :
                /\ Discriminant(i) = TaskCall.args[2]
                /\ VariantName(i) \notin ReservedVariants
                /\ VariantName(i) = NamedOpcode[invoked.op]

\* A select, sent with opcode 4, the slot below the reserved slot 5.
C24_Witness ==
    /\ invoked.op = "select" /\ TaskCall.fn = "createTask"
    /\ TaskCall.args[2] = 4 /\ TaskCall.args[2] + 1 \in {0, 1, 5, 31}

(***************************************************************************)
(* Vocabulary of the properties about access and decryption (TaskSpec).    *)
(* invoked is the last call and coprocessor the task manager's state       *)
(* after it; every step replaces invoked.                                  *)
(***************************************************************************)

Polled == invoked.op = "get_decrypt_result_safe"

Requested == invoked.op = "decrypt"

\* The handle the last call named.
Named == invoked.args[1]

\* What a poll of the handle would report now.
PollNow(handle) ==
    get_decrypt_result_safe(handle, TaskManagerAddress,
        Met(ITaskManager_getDecryptResultSafe(coprocessor, handle).answer)).result

(***************************************************************************)
(* C25  A poll of a handle whose decryption is not resolved returns        *)
(* Ok((_, false)) and one of a resolved handle Ok((plaintext, true)); a    *)
(* poll changes neither the task manager's state nor the contract's, and a *)
(* poll repeated right after a poll of the same handle returns the same    *)
(* result.                                                                 *)
(***************************************************************************)
C25_PollIdempotent ==
    /\ [](Polled =>
            /\ invoked.result.ok
            /\ invoked.result.val[2] = (Named \in coprocessor.resolved)
            /\ invoked.result.val[2] =>
                  invoked.result.val[1] = Plaintext(Named))
    /\ [][Polled' => (coprocessor' = coprocessor /\ UNCHANGED Contract)]_vars
    /\ [][(Polled /\ Polled' /\ Named' = Named) =>
             invoked'.result = invoked.result]_vars

\* A poll of a handle whose decryption was requested and is still pending.
C25_Witness ==
    /\ Polled /\ Named \in coprocessor.tickets
    /\ Named \notin coprocessor.resolved
    /\ invoked.result.ok /\ ~invoked.result.val[2]

(***************************************************************************)
(* C26  getDecryptResult fails on a handle for which a poll reports        *)
(* ready = false, and returns a value, the plaintext, exactly for a handle *)
(* whose decryption is resolved.                                           *)
(***************************************************************************)
C26_StrictFailsUntilResolved ==
    invoked.op = "tm.getDecryptResult" =>
        /\ ~PollNow(Named).val[2] => ~invoked.result.ok
        /\ invoked.result.ok <=> Named \in coprocessor.resolved
        /\ invoked.result.ok => invoked.result.val = Plaintext(Named)

\* The strict call on a handle whose decryption is requested and pending.
C26_Witness ==
    /\ invoked.op = "tm.getDecryptResult" /\ Named \in coprocessor.tickets
    /\ ~PollNow(Named).val[2] /\ ~invoked.result.ok

(***************************************************************************)
(* C27  decrypt(handle) makes the one call createDecryptTask(handle,       *)
(* msg::sender()), returns no value and at most enqueues a request:        *)
(* nothing becomes resolved by it.  A handle is resolved only by the       *)
(* coprocessor and only after its decryption was requested, a request is   *)
(* enqueued only by a successful decrypt of that handle, and a poll        *)
(* reports ready = true only for a requested and resolved handle.  A poll  *)
(* of a resolved handle returns the plaintext to whoever makes it.         *)
(***************************************************************************)
C27_TwoPhase ==
    /\ [](Requested =>
            /\ Len(invoked.calls) = 1
            /\ TaskCall.fn = "createDecryptTask"
            /\ TaskCall.args = <<Named, invoked.sender>>
            /\ invoked.result.ok =>
                  (invoked.result.val = <<>> /\ Named \in coprocessor.tickets))
    /\ [][Requested' =>
             /\ coprocessor'.resolved = coprocessor.resolved
             /\ coprocessor'.grants = coprocessor.grants]_vars
    /\ [][\A h \in coprocessor'.resolved \ coprocessor.resolved :
             h \in coprocessor.tickets /\ invoked'.op = "resolve"]_vars
    /\ [][\A h \in coprocessor'.tickets \ coprocessor.tickets :
             Requested' /\ Named' = h /\ invoked'.result.ok]_vars
    /\ [](Polled =>
            /\ (invoked.result.ok /\ invoked.result.val[2]) =>
                  (Named \in coprocessor.tickets
                     /\ Named \in coprocessor.resolved)
            /\ Named \in coprocessor.resolved =>
                  (invoked.result.ok
                     /\ invoked.result.val = <<Plaintext(Named), TRUE>>))

\* The result of a decryption retrieved by an account that is neither the
\* owner of the handle nor holds a grant for it.
C27_Witness ==
    /\ Polled /\ Named = 102 /\ invoked.sender = 6
    /\ <<102, 6>> \notin coprocessor.grants
    /\ invoked.result.ok /\ invoked.result.val = <<43, TRUE>>

\* The calls that make a grant, and the pair (handle, account) the last
\* call named: the contract itself for allow_this, the caller for
\* allow_sender, the account passed otherwise.
GrantCalls == AccessWrappers \cup {"tm.allow"}

AccessPair ==
    CASE invoked.op = "allow_this" -> <<Named, ShopAddress>>
      [] invoked.op = "allow_sender" -> <<Named, invoked.sender>>
      [] OTHER -> <<invoked.args[1], invoked.args[2]>>

Granting == invoked.op \in GrantCalls /\ invoked.result.ok

Revoking == invoked.op = "tm.revoke" /\ invoked.result.ok

C29_DecryptNeedsGrant ==
    /\ [][(Requested' /\ invoked'.result.ok) =>
             \/ invoked'.sender = getOwner(Named')
             \/ <<Named', invoked'.sender>> \in coprocessor.grants]_vars
    /\ [][\A h \in coprocessor'.tickets \ coprocessor.tickets :
             /\ Requested' /\ h = Named'
             /\ \/ invoked'.sender = getOwner(h)
                \/ <<h, invoked'.sender>> \in coprocessor.grants]_vars
    /\ [](Requested =>
            (~invoked.result.ok =>
                 /\ invoked.result.err = "TaskManagerCallFailed"
                 /\ invoked.sender # getOwner(Named)
                 /\ <<Named, invoked.sender>> \notin coprocessor.grants))

\* decrypt by a caller that neither owns the handle nor holds a grant:
\* refused, nothing enqueued.
C29_Witness ==
    /\ Requested /\ Named = 101 /\ invoked.sender = 6
    /\ getOwner(101) # 6 /\ <<101, 6>> \notin coprocessor.grants
    /\ ~invoked.result.ok /\ 101 \notin coprocessor.tickets

\* The administrator is configured: initialize stored an owner.
Configured == owner_of_shop # ADDRESS_ZERO

(***************************************************************************)
(* C30 (as stated)  Once initialize has configured the administrator and   *)
(* the ledger, no call of a public function, initialize included, changes  *)
(* either of them, and a withdraw_rewards or withdraw_funds that reaches   *)
(* the ledger's pay call was sent by that administrator.                   *)
(***************************************************************************)
C30_AdministratorFixed ==
    [][Configured =>
          /\ owner_of_shop' = owner_of_shop
          /\ evvm_core' = evvm_core
          /\ (IsWithdraw' /\ Pays' # <<>>) =>
                last'.sender = owner_of_shop]_vars

(***************************************************************************)
(* C31  When order_coffee reaches the pay call, the signature of           *)
(* client_address was verified, and pay is called once with from =         *)
(* client_address, to = the contract's own address, token = the ether      *)
(* address, amountPlaintext = the total price of the order the client      *)
(* signed, and the ledger nonce = nonce_evvm, not the order's nonce.       *)
(***************************************************************************)
C31_PayArguments ==
    (OrderSeen /\ Pays # <<>>) =>
        LET req == invoked.req
            args == Pays[1].args
        IN  /\ Len(Pays) = 1
            /\ last.sigres = "Ok(true)"
            /\ \E g \in Signatures :
                  /\ SigBytes(g) = req.signature
                  /\ g.key = args[1]
                  /\ g.order.total_price = args[5]
                  /\ g.order.nonce = req.nonce
            /\ args[1] = req.client_address
            /\ args[2] = ShopAddress
            /\ args[3] = <<>>
            /\ args[4] = ETHER_ADDRESS
            /\ args[5] = req.total_price_plaintext
            /\ args[15] = req.nonce_evvm
            /\ args[15] # req.nonce

\* A settled order with nonce 7, paid under the ledger nonce 3.
C31_Witness ==
    /\ OrderSeen /\ last.result = "Ok" /\ Pays # <<>>
    /\ invoked.req.nonce = 7 /\ Pays[1].args[15] = 3
    /\ Pays[1].args[1] = invoked.req.client_address

(***************************************************************************)
(* C32  A successful order_coffee takes the one entry (client_address,     *)
(* nonce) of the nonce registry from unused to used and leaves every other *)
(* entry as it was; initialize, withdraw_rewards, withdraw_funds, the view *)
(* is_this_nonce_used and every failed order_coffee leave the whole        *)
(* registry unchanged.                                                     *)
(***************************************************************************)
C32_RegistryFrame ==
    [][IF last'.op = "order_coffee" /\ last'.result = "Ok"
       THEN /\ ~check_async_nonce[last'.client_address][last'.nonce]
            /\ check_async_nonce' =
                  [check_async_nonce EXCEPT
                      ![last'.client_address][last'.nonce] = TRUE]
       ELSE check_async_nonce' = check_async_nonce]_vars

\* A successful order next to an entry that was used before and an entry
\* of the other client that stays unused.
C32_Witness ==
    /\ IsOrder /\ last.result = "Ok"
    /\ \E n \in Nonces \ {last.nonce} :
          last.pre.check_async_nonce[last.client_address][n]
    /\ \E a \in Clients \ {last.client_address} :
          ~check_async_nonce[a][last.nonce]

(***************************************************************************)
(* C33 (as stated)  The argument list of every pay call of order_coffee,   *)
(* withdraw_rewards and withdraw_funds has as many arguments as            *)
(* IEVVMCore::pay declares parameters, and each argument stands at the     *)
(* position of the parameter of its name and type: from, to, toIdentity,   *)
(* token, amountPlaintext, encrypted amount, amount proof, feePlaintext,   *)
(* encrypted fee, fee proof, nonce, priorityFlag, executor, signature.     *)
(***************************************************************************)
C33_PayMatchesInterface ==
    ((IsOrder \/ IsWithdraw) /\ Pays # <<>>) =>
        LET args == Pays[1].args
        IN  /\ Len(args) = Len(PayCallTypes)
            /\ Len(args) = Len(IEVVMCore_pay)
            /\ \A i \in DOMAIN args :
                  /\ i \in DOMAIN IEVVMCore_pay
                  /\ PayCallTypes[i][2] = IEVVMCore_pay[i][2]
            /\ \A i \in DOMAIN IEVVMCore_pay :
                  IEVVMCore_pay[i][1] \in {"nonce", "priorityFlag", "executor",
                                           "signature"} =>
                      PayCallTypes[i][1] = IEVVMCore_pay[i][1]

(***************************************************************************)
(* C34  The signature-verification outcome of order_coffee is a function   *)
(* of the ledger's EVVM id, client_address, coffee_type, quantity,         *)
(* total_price_plaintext, nonce and signature: the same order relayed      *)
(* from the same storage with any other priority_fee_plaintext, encrypted  *)
(* amount, encrypted fee, nonce_evvm and priority_flag_evvm has the same   *)
(* verification outcome, and with it the same acceptance or rejection of   *)
(* the signature.                                                          *)
(***************************************************************************)
C34_VerificationInputs ==
    OrderSeen =>
        LET req == invoked.req
            encrypted == EncryptedInputs
                           \cup {[ct_hash |-> 78, security_zone |-> 1,
                                  utype |-> 4, signature |-> <<3>>]}
        IN  \A f \in OfferedFees, amount \in encrypted, fee \in encrypted,
               nonce_evvm \in EvvmNonces \cup {4}, flag \in BOOLEAN :
                LET other == [req EXCEPT
                                !.priority_fee_plaintext = f,
                                !.input_encrypted_total_price = amount,
                                !.input_encrypted_priority_fee = fee,
                                !.nonce_evvm = nonce_evvm,
                                !.priority_flag_evvm = flag]
                IN  /\ Rerun(other).sigres = last.sigres
                    /\ (Rerun(other).result = "InvalidSignature")
                          <=> (last.result = "InvalidSignature")

\* An order relayed with a fee of 1 whose signature verifies.
C34_Witness ==
    /\ OrderSeen /\ last.sigres = "Ok(true)"
    /\ invoked.req.priority_fee_plaintext = 1
    /\ invoked.req.nonce = 8

\* Who submits the transaction: a relayer, or a client, for an order of
\* their own or of the other client.
Submitters == Fishers \cup Clients

(***************************************************************************)
(* C35  The result and the state effect of order_coffee do not depend on   *)
(* who submits the transaction: from the same storage, with the same       *)
(* arguments and the same ledger behaviour, the order has the same result, *)
(* the same storage afterwards and the same ledger calls for every         *)
(* msg::sender.  A registry entry that the order sets is the entry of      *)
(* client_address, and the entries of a submitter who is not the client    *)
(* are left as they were.                                                  *)
(***************************************************************************)
C35_SubmitterIrrelevant ==
    OrderSeen =>
        /\ \A sender \in Submitters :
              LET out == order_coffee_entry(last.pre, sender, invoked.req,
                                            invoked.env)
              IN  /\ out.result = last.result
                  /\ out.st = Current
                  /\ out.sigres = last.sigres
                  /\ out.calls = last.calls
        /\ \A a \in Clients, n \in Nonces :
              (check_async_nonce[a][n] /\ ~last.pre.check_async_nonce[a][n])
                  => (a = invoked.req.client_address /\ n = invoked.req.nonce)
        /\ (last.sender \in Clients /\ last.sender # invoked.req.client_address)
              => check_async_nonce[last.sender]
                    = last.pre.check_async_nonce[last.sender]

\* A client submitted the other client's order and it was settled.
C35_Witness ==
    /\ OrderSeen /\ last.result = "Ok"
    /\ last.sender \in Clients
    /\ last.sender # invoked.req.client_address
    /\ check_async_nonce[invoked.req.client_address][invoked.req.nonce]
    /\ ~check_async_nonce[last.sender][invoked.req.nonce]

(***************************************************************************)
(* C36  For order_coffee, distinct tuples (EVVM id, coffee_type, quantity, *)
(* total_price_plaintext, nonce) give distinct canonical messages, also    *)
(* when coffee_type holds commas or digits: no other tuple gives the       *)
(* message of the order being verified, and a client's signature accepted  *)
(* for the order is not accepted for any other tuple.                      *)
(***************************************************************************)
C36_OrderMessagesDistinct ==
    (Called("signature_verification") /\ invoked.function_name = orderCoffee)
      => \A o \in FreeOrders :
            OrderTriple(o) = Triple(invoked.evvm_id, invoked.function_name,
                                    invoked.inputs)
              => \A other \in FreeOrders \ {o} :
                    LET tr == OrderTriple(other)
                    IN  /\ CanonicalMessage(tr.evvm_id, tr.function_name,
                                            tr.inputs) # InvokedMessage
                        /\ (/\ Accepted(invoked.result)
                            /\ invoked.expected_signer \in Clients) =>
                              ~Accepted(signature_verification(tr.evvm_id,
                                  tr.function_name, tr.inputs,
                                  invoked.signature, invoked.expected_signer,
                                  invoked.call_fails))

\* Verified: the order of 5 of "L,2" at 5 with nonce 7, whose message reads
\* like an order of "L" with one number too many.
C36_Witness ==
    /\ Called("signature_verification")
    /\ invoked.inputs = <<"L", ",", "2", ",", "5", ",", "5", ",", "7">>
    /\ \E o \in FreeOrders :
          /\ o.coffee_type = <<"L", ",", "2">> /\ o.quantity = 5
          /\ OrderTriple(o) = Triple(invoked.evvm_id, invoked.function_name,
                                     invoked.inputs)

(***************************************************************************)
(* C37  recover_signer returns RecoveryFailed whenever the call to the     *)
(* precompile fails or returns fewer than 32 bytes, and                    *)
(* signature_verification then returns that error and not Ok(true), for    *)
(* every expected_signer, the zero address among them.  When               *)
(* split_signature fails its error is returned and the precompile is not   *)
(* called; otherwise it is called once.                                    *)
(***************************************************************************)
C37_RecoveryFailed ==
    (Called("recover_signer") \/ Called("signature_verification")) =>
        LET split == split_signature(invoked.signature)
            res == invoked.result
        IN  /\ ~split.ok => (invoked.calls = <<>> /\ res = Err(split.err))
            /\ split.ok =>
                  /\ Len(invoked.calls) = 1
                  /\ LET out == RawStaticCall(invoked.calls[1],
                                              invoked.call_fails)
                     IN  IF ~out.ok \/ Len(out.val) < 32
                         THEN res = Err("RecoveryFailed")
                         ELSE res.ok

\* No recovery for a signature with r = 0, checked against the zero address.
C37_Witness ==
    /\ Called("signature_verification")
    /\ invoked.expected_signer = ADDRESS_ZERO
    /\ ~invoked.call_fails
    /\ Len(invoked.calls) = 1
    /\ invoked.result = Err("RecoveryFailed")

(***************************************************************************)
(* C38  For every accepted 65-byte signature split_signature returns r     *)
(* equal to bytes 0..32 and s equal to bytes 32..64, unchanged, and        *)
(* splitting r, s and the returned v written as one signature gives the    *)
(* same (r, s, v) again.  The addition of 27 does not wrap around in 8     *)
(* bits: the returned v is the input's v + 27 when that was below 27 and   *)
(* the input's v otherwise, and no input v below 27 other than 0 and 1 is  *)
(* accepted.                                                               *)
(***************************************************************************)
C38_SplitIdempotent ==
    (Called("split_signature") /\ Len(invoked.signature) = 65) =>
        LET sig == invoked.signature
            res == invoked.result
        IN  /\ res.ok =>
                  /\ res.val.r = SubSeq(sig, 1, 32)
                  /\ res.val.s = SubSeq(sig, 33, 64)
                  /\ Len(res.val.r) = 32 /\ Len(res.val.s) = 32
                  /\ split_signature(res.val.r \o res.val.s \o <<res.val.v>>)
                        = res
                  /\ res.val.v = IF sig[65] < 27 THEN sig[65] + 27
                                 ELSE sig[65]
                  /\ res.val.v \in 0..255
            /\ (sig[65] < 27 /\ sig[65] \notin {0, 1}) => ~res.ok

\* Accepted with v = 0 and returned with v = 27.
C38_Witness ==
    /\ Called("split_signature") /\ Len(invoked.signature) = 65
    /\ invoked.signature[65] = 0
    /\ invoked.result.ok /\ invoked.result.val.v = 27
    /\ invoked.result.val.r = SubSeq(invoked.signature, 1, 32)

(***************************************************************************)
(* C39  Every function of the FHE struct (from_external, add, sub, mul,    *)
(* allow) returns Err(OperationFailed) for all its inputs and has no       *)
(* effect: nothing of the calling contract or of the coprocessor changes.  *)
(* The transfer of the crate's Quick Start, which verifies its input       *)
(* through FHE::from_external, therefore always fails at that step, with   *)
(* "Invalid input" and with the balances as they were.                     *)
(***************************************************************************)
C39_FacadeAlwaysFails ==
    /\ invoked.op \in {"from_external", "add", "sub", "mul", "allow"} =>
          /\ invoked.result = Err("OperationFailed")
          /\ invoked.balances = invoked.pre
    /\ invoked.op = "transfer" =>
          /\ invoked.result = Err("Invalid input")
          /\ invoked.steps = <<"from_external">>
          /\ invoked.balances = invoked.pre
    /\ invoked.balances = Deployed
    /\ coprocessor = Unused
    /\ Current = last.pre

\* A transfer of an encrypted amount to another account, failed.
C39_Witness ==
    /\ invoked.op = "transfer"
    /\ invoked.sender # invoked.args[1]
    /\ invoked.args[2] \in Handles
    /\ ~invoked.result.ok

====
